---- MODULE Spec2Model ----
(***************************************************************************)
(* Model of file_chopper's chop/join core (src/src/file_chopper/chopper.py) *)
(* over an explicit file system.                                            *)
(*                                                                          *)
(* A file name is a sequence of one-character strings, a path is a         *)
(* sequence of names (the root is <<>>), file data is a sequence of        *)
(* one-character strings.  The file system maps every existing path to a   *)
(* directory or to a regular file with its data.                            *)
(***************************************************************************)
EXTENDS Integers, Sequences, FiniteSets, TLC

\* ------------------------------------------------------------------ bounds
\* longest source file, in bytes
MaxLen == 3
\* largest chunk size handed to chop
MaxChunk == 2
\* number of chop calls in one behaviour
MaxChops == 1
\* number of outside modifications of the directory in one behaviour
MaxTamper == 1

\* ------------------------------------------------------------- characters
Bytes == {"a", "b"}
DigitChars == <<"0", "1", "2", "3", "4", "5", "6", "7", "8", "9">>
Whitespace == {" ", "\n"}

Min(a, b) == IF a < b THEN a ELSE b

RECURSIVE Flatten(_)
Flatten(ss) == IF ss = <<>> THEN <<>> ELSE Head(ss) \o Flatten(Tail(ss))

\* ------------------------------------------------------------------ names
\* str(n) for n >= 0: the decimal digits of n
RECURSIVE DecDigits(_)
DecDigits(n) ==
    IF n < 10 THEN <<DigitChars[n + 1]>>
    ELSE DecDigits(n \div 10) \o <<DigitChars[(n % 10) + 1]>>

RECURSIVE ZeroPad(_, _)
ZeroPad(ds, width) == IF Len(ds) >= width THEN ds ELSE ZeroPad(<<"0">> \o ds, width)

\* a suffix template that pads the index to three digits only
PartSuffixThreeDigits(index) == <<".", "p", "a", "r", "t">> \o ZeroPad(DecDigits(index), 3)

\* PART_SUFFIX_TEMPLATE.format(index=index): ".part" and the index, zero-padded
\* to at least four digits
PART_SUFFIX_TEMPLATE(index) == <<".", "p", "a", "r", "t">> \o ZeroPad(DecDigits(index), 4)

IsDigit(c) == \E i \in 1..10 : DigitChars[i] = c

\* PART_PATTERN.match(name) succeeds: ^(.+)\.part(\d{4})$
PartMatches(name) ==
    /\ Len(name) >= 10
    /\ SubSeq(name, Len(name) - 8, Len(name) - 4) = <<".", "p", "a", "r", "t">>
    /\ \A i \in (Len(name) - 3)..Len(name) : IsDigit(name[i])

\* m.group(1) of a successful PART_PATTERN match
PartBase(name) == SubSeq(name, 1, Len(name) - 9)

\* the position of the last "." of a name, 0 when there is none (str.rfind + 1)
LastDot(name) ==
    IF \E i \in 1..Len(name) : name[i] = "."
    THEN CHOOSE i \in 1..Len(name) : name[i] = "." /\ \A j \in (i + 1)..Len(name) : name[j] # "."
    ELSE 0

\* pathlib's PurePath.stem: the name without its last suffix; a leading or a
\* trailing dot starts no suffix
Stem(name) ==
    IF LastDot(name) > 1 /\ LastDot(name) < Len(name)
    THEN SubSeq(name, 1, LastDot(name) - 1)
    ELSE name

SHA256_SUFFIX == <<".", "s", "h", "a", "2", "5", "6">>

\* ------------------------------------------------------------------ paths
NoPath == <<<<>>>>
Parent(p) == SubSeq(p, 1, Len(p) - 1)
Name(p) == p[Len(p)]
Child(dir, name) == dir \o <<name>>

DirEntry == [kind |-> "dir", data |-> <<>>]
FileEntry(data) == [kind |-> "file", data |-> data]

Exists(fsys, p) == p \in DOMAIN fsys
IsDir(fsys, p) == Exists(fsys, p) /\ fsys[p].kind = "dir"
IsFile(fsys, p) == Exists(fsys, p) /\ fsys[p].kind = "file"

\* the file system with path p bound to entry e
Put(fsys, p, e) == [q \in DOMAIN fsys \cup {p} |-> IF q = p THEN e ELSE fsys[q]]
\* the file system without path p
Unlink(fsys, p) == [q \in DOMAIN fsys \ {p} |-> fsys[q]]

\* Path.mkdir(parents=True, exist_ok=True): ok is FALSE when the path or one
\* of its ancestors exists and is not a directory; nothing is created then
RECURSIVE Mkdirs(_, _)
Mkdirs(fsys, p) ==
    IF Exists(fsys, p) THEN [ok |-> IsDir(fsys, p), fs |-> fsys]
    ELSE IF p = <<>> THEN [ok |-> TRUE, fs |-> Put(fsys, p, DirEntry)]
    ELSE LET up == Mkdirs(fsys, Parent(p))
         IN  IF up.ok THEN [ok |-> TRUE, fs |-> Put(up.fs, p, DirEntry)]
             ELSE [ok |-> FALSE, fs |-> fsys]

\* ----------------------------------------------------------------- digest
\* SHA-256 as a collision-free digest: an injective, never empty,
\* whitespace-free encoding of the hashed bytes
HexOf(c) == IF c = " " THEN <<"w", "s">> ELSE IF c = "\n" THEN <<"w", "n">> ELSE <<"x", c>>
Sha256Hex(data) == <<"h">> \o Flatten([i \in 1..Len(data) |-> HexOf(data[i])])

\* sha256_of_file(path)
sha256_of_file(fsys, p) == Sha256Hex(fsys[p].data)

\* str.split(): the maximal runs of non-whitespace characters, in order
RECURSIVE Split(_)
Split(text) ==
    IF text = <<>> THEN <<>>
    ELSE IF Head(text) \in Whitespace THEN Split(Tail(text))
    ELSE LET stop == IF \E i \in 1..Len(text) : text[i] \in Whitespace
                     THEN (CHOOSE i \in 1..Len(text) :
                              text[i] \in Whitespace /\ \A j \in 1..(i - 1) : text[j] \notin Whitespace)
                     ELSE Len(text) + 1
         IN  <<SubSeq(text, 1, stop - 1)>> \o Split(SubSeq(text, stop, Len(text)))

\* ------------------------------------------------------------------- chop
\* one call cb(bytes_done, total_bytes) of the progress callback, with what the
\* callback finds at the path of the part just counted when it runs
ProgressCall(bytes_done, total_bytes, fsys, part_path) ==
    [bytes_done |-> bytes_done, total_bytes |-> total_bytes,
     on_disk |-> IF IsFile(fsys, part_path) THEN <<fsys[part_path].data>> ELSE <<>>]

\* a validation that looks at the source's size before the chunk size
ChopValidateSizeFirst(fsys, source, chunk_size) ==
    IF ~Exists(fsys, source) THEN "NotFound"
    ELSE IF IsDir(fsys, source) THEN "IsDirectory"
    ELSE IF Len(fsys[source].data) = 0 THEN "EmptyInput"
    ELSE IF chunk_size <= 0 THEN "InvalidArgument"
    ELSE "ok"

\* the checks chop makes before it touches the disk, in the order of the code:
\* "ok" or the kind of the first check that fails
ChopValidate(fsys, source, chunk_size) ==
    IF ~Exists(fsys, source) THEN "NotFound"
    ELSE IF IsDir(fsys, source) THEN "IsDirectory"
    ELSE IF chunk_size <= 0 THEN "InvalidArgument"
    ELSE IF Len(fsys[source].data) = 0 THEN "EmptyInput"
    ELSE "ok"

\* a chop loop that stops at the first block shorter than chunk_size and so
\* drops the remainder of the source
RECURSIVE ChopLoopFullBlocksOnly(_, _, _, _, _, _, _, _, _)
ChopLoopFullBlocksOnly(fsys, data, pos, index, output_dir, name, chunk_size, parts, cbs) ==
    LET block == SubSeq(data, pos + 1, Min(pos + chunk_size, Len(data)))
        part_path == Child(output_dir, name \o PART_SUFFIX_TEMPLATE(index))
    IN  IF Len(block) < chunk_size
        THEN [status |-> "ok", fs |-> fsys, parts |-> parts, cbs |-> cbs]
        ELSE IF IsDir(fsys, part_path)
        THEN [status |-> "IOError", fs |-> fsys, parts |-> parts, cbs |-> cbs]
        ELSE ChopLoopFullBlocksOnly(Put(fsys, part_path, FileEntry(block)), data,
                      pos + Len(block), index + 1, output_dir, name, chunk_size,
                      Append(parts, part_path),
                      Append(cbs, ProgressCall(pos + Len(block), Len(data),
                                     Put(fsys, part_path, FileEntry(block)), part_path)))

\* a loop that reports a part to the callback before it writes the part's file
RECURSIVE ChopLoopReportFirst(_, _, _, _, _, _, _, _, _)
ChopLoopReportFirst(fsys, data, pos, index, output_dir, name, chunk_size, parts, cbs) ==
    LET block == SubSeq(data, pos + 1, Min(pos + chunk_size, Len(data)))
        part_path == Child(output_dir, name \o PART_SUFFIX_TEMPLATE(index))
    IN  IF block = <<>> THEN [status |-> "ok", fs |-> fsys, parts |-> parts, cbs |-> cbs]
        ELSE IF IsDir(fsys, part_path)
        THEN [status |-> "IOError", fs |-> fsys, parts |-> parts, cbs |-> cbs]
        ELSE ChopLoopReportFirst(Put(fsys, part_path, FileEntry(block)), data,
                      pos + Len(block), index + 1, output_dir, name, chunk_size,
                      Append(parts, part_path),
                      Append(cbs, ProgressCall(pos + Len(block), Len(data), fsys, part_path)))

\* the read/write loop of chop from byte offset pos on: one part file per block
\* of at most chunk_size bytes; opening a part path that is a directory fails
\* and leaves the parts written so far
RECURSIVE ChopLoop(_, _, _, _, _, _, _, _, _)
ChopLoop(fsys, data, pos, index, output_dir, name, chunk_size, parts, cbs) ==
    LET block == SubSeq(data, pos + 1, Min(pos + chunk_size, Len(data)))
        part_path == Child(output_dir, name \o PART_SUFFIX_TEMPLATE(index))
    IN  IF block = <<>> THEN [status |-> "ok", fs |-> fsys, parts |-> parts, cbs |-> cbs]
        ELSE IF IsDir(fsys, part_path)
        THEN [status |-> "IOError", fs |-> fsys, parts |-> parts, cbs |-> cbs]
        ELSE ChopLoop(Put(fsys, part_path, FileEntry(block)), data, pos + Len(block),
                      index + 1, output_dir, name, chunk_size,
                      Append(parts, part_path),
                      Append(cbs, ProgressCall(pos + Len(block), Len(data),
                                     Put(fsys, part_path, FileEntry(block)), part_path)))

\* the text chop writes into the sidecar
SidecarText(checksum, name) == checksum \o <<" ", " ">> \o name \o <<"\n">>

\* an end of chop that writes the sidecar whatever verify says
ChopChecksumAlways(looped, source, dir, verify) ==
    LET checksum_path == Child(dir, Name(source) \o SHA256_SUFFIX)
    IN  IF IsDir(looped.fs, checksum_path) THEN [looped EXCEPT !.status = "IOError"]
        ELSE [looped EXCEPT !.fs = Put(looped.fs, checksum_path,
                  FileEntry(SidecarText(sha256_of_file(looped.fs, source), Name(source))))]

\* the end of chop: with verify, the sidecar with the source's digest is written
\* into the output directory
ChopChecksum(looped, source, dir, verify) ==
    LET checksum_path == Child(dir, Name(source) \o SHA256_SUFFIX)
    IN  IF ~verify THEN looped
        ELSE IF IsDir(looped.fs, checksum_path) THEN [looped EXCEPT !.status = "IOError"]
        ELSE [looped EXCEPT !.fs = Put(looped.fs, checksum_path,
                  FileEntry(SidecarText(sha256_of_file(looped.fs, source), Name(source))))]

\* a chop that writes the sidecar before it writes the parts
chopChecksumFirst(fsys, source, chunk_size, output_dir, verify) ==
    LET fail(kind) == [status |-> kind, fs |-> fsys, parts |-> <<>>, cbs |-> <<>>]
        valid == ChopValidate(fsys, source, chunk_size)
        dir == IF output_dir = NoPath THEN Parent(source) ELSE output_dir
        made == Mkdirs(fsys, dir)
        summed == ChopChecksum([status |-> "ok", fs |-> made.fs, parts |-> <<>>,
                                cbs |-> <<>>], source, dir, verify)
        looped == ChopLoop(summed.fs, fsys[source].data, 0, 1, dir, Name(source),
                           chunk_size, <<>>, <<>>)
    IN  IF valid # "ok" THEN fail(valid)
        ELSE IF ~made.ok THEN fail("IOError")
        ELSE IF summed.status # "ok" THEN summed
        ELSE looped

\* chop(source, chunk_size, output_dir, verify): the status, the list of the
\* parts written, the progress callback's calls and the file system it leaves
chop(fsys, source, chunk_size, output_dir, verify) ==
    LET fail(kind) == [status |-> kind, fs |-> fsys, parts |-> <<>>, cbs |-> <<>>]
        valid == ChopValidate(fsys, source, chunk_size)
        dir == IF output_dir = NoPath THEN Parent(source) ELSE output_dir
        made == Mkdirs(fsys, dir)
        looped == ChopLoop(made.fs, fsys[source].data, 0, 1, dir, Name(source),
                           chunk_size, <<>>, <<>>)
    IN  IF valid # "ok" THEN fail(valid)
        ELSE IF ~made.ok THEN fail("IOError")
        ELSE IF looped.status # "ok" THEN looped
        ELSE ChopChecksum(looped, source, dir, verify)

\* ------------------------------------------------------------------- join
\* an existence check that looks at the first listed part only
FirstMissingHeadOnly(fsys, parts) == IF ~Exists(fsys, parts[1]) THEN 1 ELSE 0

\* the index of the first listed part that does not exist, 0 when all exist
FirstMissing(fsys, parts) ==
    IF \E i \in 1..Len(parts) : ~Exists(fsys, parts[i])
    THEN CHOOSE i \in 1..Len(parts) :
             ~Exists(fsys, parts[i]) /\ \A j \in 1..(i - 1) : Exists(fsys, parts[j])
    ELSE 0

\* a copy loop that re-sorts: at step k it reads the part numbered k when the
\* list holds one
RECURSIVE JoinLoopByNumber(_, _, _, _)
JoinLoopByNumber(disk, parts, k, written) ==
    LET numbered == {i \in 1..Len(parts) :
                        /\ PartMatches(Name(parts[i]))
                        /\ SubSeq(Name(parts[i]), Len(Name(parts[i])) - 8, Len(Name(parts[i])))
                               = PART_SUFFIX_TEMPLATE(k)}
        p == IF numbered = {} THEN parts[k] ELSE parts[CHOOSE i \in numbered : TRUE]
    IN  IF k > Len(parts) THEN [ok |-> TRUE, data |-> written]
        ELSE IF ~IsFile(disk, p) THEN [ok |-> FALSE, data |-> written]
        ELSE JoinLoopByNumber(disk, parts, k + 1, written \o disk[p].data)

\* a copy loop that puts each part in front of what was written before it
RECURSIVE JoinLoopPrepend(_, _, _, _)
JoinLoopPrepend(disk, parts, k, written) ==
    IF k > Len(parts) THEN [ok |-> TRUE, data |-> written]
    ELSE IF ~IsFile(disk, parts[k]) THEN [ok |-> FALSE, data |-> written]
    ELSE JoinLoopPrepend(disk, parts, k + 1, disk[parts[k]].data \o written)

\* the copy loop of join: each part's bytes as they are on disk when the part
\* is read, appended in list order; a part that cannot be opened for reading
\* stops the loop.  The output file was truncated when it was opened and the
\* bytes written to it sit in the writer's buffer until it is closed (every
\* file of the model is far smaller than that buffer), so a part that is the
\* output file itself reads as empty.
RECURSIVE JoinLoop(_, _, _, _)
JoinLoop(disk, parts, k, written) ==
    IF k > Len(parts) THEN [ok |-> TRUE, data |-> written]
    ELSE IF ~IsFile(disk, parts[k]) THEN [ok |-> FALSE, data |-> written]
    ELSE JoinLoop(disk, parts, k + 1, written \o disk[parts[k]].data)

\* the output path join infers from the first part when none is given
InferredOutput(first) ==
    Child(Parent(first),
          IF PartMatches(Name(first)) THEN PartBase(Name(first)) ELSE Stem(Name(first)))

\* the sidecar join consults: named after the first part's base name (after the
\* output's name when the first part is no .partNNNN file), in the first
\* part's directory
ChecksumPath(parts, output) ==
    Child(Parent(parts[1]),
          (IF PartMatches(Name(parts[1])) THEN PartBase(Name(parts[1])) ELSE Name(output))
              \o SHA256_SUFFIX)

\* a mismatch handler that leaves the output file in place
RemoveOutputKept(fsys, out) == fsys

\* output.unlink(missing_ok=True) on a checksum mismatch
RemoveOutput(fsys, out) == Unlink(fsys, out)

\* a verification step that treats a missing sidecar as a failure
VerifyOutputNeedsSidecar(fsys, parts, out) ==
    LET checksum_path == ChecksumPath(parts, out)
        res(kind, path, side, after) ==
            [status |-> kind, result |-> path, sidecar |-> side, fs |-> after]
        tokens == Split(fsys[checksum_path].data)
    IN  IF ~Exists(fsys, checksum_path)
        THEN res("NotFound", NoPath, NoPath, RemoveOutput(fsys, out))
        ELSE IF IsDir(fsys, checksum_path) THEN res("IOError", NoPath, checksum_path, fsys)
        ELSE IF tokens = <<>> THEN res("IndexError", NoPath, checksum_path, fsys)
        ELSE IF sha256_of_file(fsys, out) # tokens[1]
        THEN res("ChecksumMismatch", NoPath, checksum_path, RemoveOutput(fsys, out))
        ELSE res("ok", out, checksum_path, fsys)

\* the verification step of join on the written output: skipped when there is
\* no sidecar, else the first token of the sidecar against the output's digest
VerifyOutput(fsys, parts, out) ==
    LET checksum_path == ChecksumPath(parts, out)
        res(kind, path, side, after) ==
            [status |-> kind, result |-> path, sidecar |-> side, fs |-> after]
        tokens == Split(fsys[checksum_path].data)
    IN  IF ~Exists(fsys, checksum_path) THEN res("ok", out, NoPath, fsys)
        ELSE IF IsDir(fsys, checksum_path) THEN res("IOError", NoPath, checksum_path, fsys)
        ELSE IF tokens = <<>> THEN res("IndexError", NoPath, checksum_path, fsys)
        ELSE IF sha256_of_file(fsys, out) # tokens[1]
        THEN res("ChecksumMismatch", NoPath, checksum_path, RemoveOutput(fsys, out))
        ELSE res("ok", out, checksum_path, fsys)

\* a join that creates the directory of a given output before it validates
\* the list
joinMakingDirFirst(fsys, parts, output, verify) ==
    LET early == IF output = NoPath THEN fsys ELSE Mkdirs(fsys, Parent(output)).fs
        res(kind, after) ==
            [status |-> kind, result |-> NoPath, sidecar |-> NoPath, fs |-> after]
        out == IF output = NoPath THEN InferredOutput(parts[1]) ELSE output
        made == Mkdirs(fsys, Parent(out))
        opened == Put(made.fs, out, FileEntry(<<>>))
        copied == JoinLoop(opened, parts, 1, <<>>)
        closed == Put(made.fs, out, FileEntry(copied.data))
    IN  IF parts = <<>> THEN res("InvalidArgument", early)
        ELSE IF FirstMissing(fsys, parts) # 0 THEN res("NotFound", early)
        ELSE IF ~made.ok \/ IsDir(made.fs, out) THEN res("IOError", fsys)
        ELSE IF ~copied.ok THEN res("IOError", closed)
        ELSE IF ~verify THEN [res("ok", closed) EXCEPT !.result = out]
        ELSE VerifyOutput(closed, parts, out)

\* join(parts, output, verify): the status, the returned path, the sidecar
\* consulted (NoPath when none was read) and the file system it leaves
join(fsys, parts, output, verify) ==
    LET res(kind, after) ==
            [status |-> kind, result |-> NoPath, sidecar |-> NoPath, fs |-> after]
        out == IF output = NoPath THEN InferredOutput(parts[1]) ELSE output
        made == Mkdirs(fsys, Parent(out))
        opened == Put(made.fs, out, FileEntry(<<>>))
        copied == JoinLoop(opened, parts, 1, <<>>)
        closed == Put(made.fs, out, FileEntry(copied.data))
    IN  IF parts = <<>> THEN res("InvalidArgument", fsys)
        ELSE IF FirstMissing(fsys, parts) # 0 THEN res("NotFound", fsys)
        ELSE IF ~made.ok \/ IsDir(made.fs, out) THEN res("IOError", fsys)
        ELSE IF ~copied.ok THEN res("IOError", closed)
        ELSE IF ~verify THEN [res("ok", closed) EXCEPT !.result = out]
        ELSE VerifyOutput(closed, parts, out)

\* ------------------------------------------------------------------ state
VARIABLES
    fs,        \* the file system: existing path -> directory or file with data
    last,      \* the most recent call or outside modification, with its result
    chopped,   \* the most recent chop call: arguments, source bytes, result
    chops,     \* chop calls made so far
    tampers    \* outside modifications made so far

vars == <<fs, last, chopped, chops, tampers>>

Root == <<>>
SrcDir == <<<<"d">>>>
OutDir == <<<<"o">>>>
SourceName == <<"f">>
Source == Child(SrcDir, SourceName)

\* all byte strings of length lo..hi
DataOfLen(lo, hi) == UNION {[1..n -> Bytes] : n \in lo..hi}

NoCall ==
    [op |-> "none", source |-> NoPath, chunk |-> 0, dir |-> NoPath, verify |-> FALSE,
     parts |-> <<>>, output |-> NoPath, status |-> "none", result |-> NoPath,
     sidecar |-> NoPath, cbs |-> <<>>, pre |-> <<>>]

NoChop ==
    [done |-> FALSE, source |-> NoPath, data |-> <<>>, chunk |-> 0, dir |-> NoPath,
     verify |-> FALSE, status |-> "none", parts |-> <<>>, post |-> <<>>]

\* the directory holding the source, and at the source's path nothing, a
\* directory, or a regular file of 0..MaxLen bytes
InitialFileSystems ==
    LET bare == (Root :> DirEntry) @@ (SrcDir :> DirEntry)
    IN  {bare, Put(bare, Source, DirEntry)}
            \cup {Put(bare, Source, FileEntry(d)) : d \in DataOfLen(0, MaxLen)}

Init ==
    /\ fs \in InitialFileSystems
    /\ last = NoCall
    /\ chopped = NoChop
    /\ chops = 0
    /\ tampers = 0

\* a call of chop(source, chunk_size, output_dir, verify)
Chop(source, chunk_size, output_dir, verify) ==
    LET r == chop(fs, source, chunk_size, output_dir, verify)
        dir == IF output_dir = NoPath THEN Parent(source) ELSE output_dir
    IN  /\ chops < MaxChops
        /\ last.op # "join"
        /\ fs' = r.fs
        /\ last' = [NoCall EXCEPT !.op = "chop", !.source = source, !.chunk = chunk_size,
                        !.dir = dir, !.verify = verify, !.parts = r.parts,
                        !.status = r.status, !.cbs = r.cbs, !.pre = fs]
        /\ chopped' = [done |-> TRUE, source |-> source,
                       data |-> IF IsFile(fs, source) THEN fs[source].data ELSE <<>>,
                       chunk |-> chunk_size, dir |-> dir, verify |-> verify,
                       status |-> r.status, parts |-> r.parts, post |-> r.fs]
        /\ chops' = chops + 1
        /\ UNCHANGED tampers

\* a call of join(parts, output, verify); a behaviour ends with its join
Join(parts, output, verify) ==
    LET r == join(fs, parts, output, verify)
    IN  /\ last.op # "join"
        /\ fs' = r.fs
        /\ last' = [NoCall EXCEPT !.op = "join", !.parts = parts, !.output = output,
                        !.verify = verify, !.status = r.status, !.result = r.result,
                        !.sidecar = r.sidecar, !.pre = fs]
        /\ UNCHANGED <<chopped, chops, tampers>>

\* outside the program: one byte of a part file is changed
Corrupt(p, i, b) ==
    /\ tampers < MaxTamper
    /\ last.op # "join"
    /\ IsFile(fs, p)
    /\ i \in 1..Len(fs[p].data)
    /\ b # fs[p].data[i]
    /\ fs' = [fs EXCEPT ![p].data[i] = b]
    /\ last' = [NoCall EXCEPT !.op = "corrupt", !.parts = <<p>>, !.pre = fs]
    /\ tampers' = tampers + 1
    /\ UNCHANGED <<chopped, chops>>

\* outside the program: a file is removed
Remove(p) ==
    /\ tampers < MaxTamper
    /\ last.op # "join"
    /\ IsFile(fs, p)
    /\ fs' = Unlink(fs, p)
    /\ last' = [NoCall EXCEPT !.op = "remove", !.parts = <<p>>, !.pre = fs]
    /\ tampers' = tampers + 1
    /\ UNCHANGED <<chopped, chops>>

\* ----------------------------------------------------------------- inputs
ChunkSizes == (-1)..MaxChunk
OutputDirs == {NoPath, OutDir}

\* the sidecar path of the most recent chop
ChoppedSidecar == Child(chopped.dir, Name(chopped.source) \o SHA256_SUFFIX)

\* the lists handed to join: the list the last chop returned, the empty list
\* and the source file alone (a file that is no .partNNNN file)
JoinLists == {chopped.parts, <<>>, <<Source>>}

\* the output paths handed to join: none, a new file in another directory and
\* the path of the first listed part
JoinOutputs(parts) ==
    {NoPath, Child(OutDir, <<"r">>)} \cup (IF parts = <<>> THEN {} ELSE {parts[1]})

\* the parts of the last chop
ChoppedParts == {chopped.parts[k] : k \in 1..Len(chopped.parts)}

Next ==
    \/ \E c \in ChunkSizes, d \in OutputDirs, v \in BOOLEAN : Chop(Source, c, d, v)
    \/ \E ps \in JoinLists : \E o \in JoinOutputs(ps), v \in BOOLEAN : Join(ps, o, v)
    \/ \E p \in ChoppedParts : \E i \in 1..MaxLen, b \in Bytes : Corrupt(p, i, b)
    \/ \E p \in ChoppedParts \cup {ChoppedSidecar} : Remove(p)

Spec == Init /\ [][Next]_vars

\* ----------------------------------------------------------- claim helpers
\* the last call is a join of exactly the list the last chop returned
JoinsChoppedParts ==
    /\ last.op = "join"
    /\ chopped.status = "ok"
    /\ last.parts = chopped.parts

\* where a join of the last chop's parts puts its output
ChoppedOutput ==
    IF last.output = NoPath THEN Child(chopped.dir, Name(chopped.source)) ELSE last.output

\* the output of the last join is none of the files join reads
OutputApart ==
    /\ \A k \in 1..Len(last.parts) : ChoppedOutput # last.parts[k]
    /\ ChoppedOutput # ChoppedSidecar

\* the bytes of the listed files in file system fsys, in list order
RECURSIVE Concat(_, _)
Concat(fsys, paths) ==
    IF paths = <<>> THEN <<>> ELSE fsys[Head(paths)].data \o Concat(fsys, Tail(paths))

RECURSIVE SumLen(_, _)
SumLen(fsys, paths) ==
    IF paths = <<>> THEN 0 ELSE Len(fsys[Head(paths)].data) + SumLen(fsys, Tail(paths))

\* k as exactly four decimal digits (k in 0..9999)
FourDigits(k) ==
    <<DigitChars[((k \div 1000) % 10) + 1], DigitChars[((k \div 100) % 10) + 1],
      DigitChars[((k \div 10) % 10) + 1], DigitChars[(k % 10) + 1]>>

\* file systems a and b differ in exactly one byte of one of the listed files
OneByteChanged(a, b, paths) ==
    /\ DOMAIN a = DOMAIN b
    /\ \E k \in 1..Len(paths) :
          /\ IsFile(a, paths[k])
          /\ \A q \in DOMAIN a \ {paths[k]} : a[q] = b[q]
          /\ b[paths[k]].kind = "file"
          /\ Len(b[paths[k]].data) = Len(a[paths[k]].data)
          /\ Cardinality({i \in 1..Len(a[paths[k]].data) :
                             a[paths[k]].data[i] # b[paths[k]].data[i]}) = 1

\* ------------------------------------------------------------------ claims
\* C1: round trip.  A join of the list a chop returned, made right after that
\* chop with the default flags (the chop wrote its sidecar, or the join does
\* not verify) and with the inferred output path or a new output file,
\* succeeds, returns the output path, and the output holds exactly the bytes
\* the source had when it was chopped.
C1_RoundTrip ==
    (/\ JoinsChoppedParts
     /\ last.pre = chopped.post
     /\ chopped.verify \/ ~last.verify
     /\ OutputApart)
    => /\ last.status = "ok"
       /\ last.result = ChoppedOutput
       /\ IsFile(fs, ChoppedOutput)
       /\ fs[ChoppedOutput].data = chopped.data

\* a verified round trip of a three-byte source through parts of 2 and 1 bytes
C1_Witness ==
    /\ JoinsChoppedParts
    /\ last.pre = chopped.post
    /\ chopped.verify /\ last.verify
    /\ Len(chopped.data) = 3 /\ chopped.chunk = 2
    /\ last.output = NoPath
    /\ last.status = "ok"
    /\ chopped.data = <<"a", "b", "a">>

\* C2: a successful chop of a source of L > 0 bytes with chunk size S > 0
\* returns ceil(L/S) parts; every part but the last holds S bytes, the last
\* holds L - (count-1)*S bytes, between 1 and S, and the lengths sum to L.
\* Such a chop fails only on an I/O error.
C2_PartCount ==
    LET L == Len(chopped.data)
        S == chopped.chunk
        N == Len(last.parts)
    IN  (last.op = "chop" /\ IsFile(last.pre, last.source) /\ L > 0 /\ S > 0)
        => /\ last.status \in {"ok", "IOError"}
           /\ last.status = "ok" =>
                /\ N * S >= L /\ (N - 1) * S < L
                /\ \A k \in 1..N : IsFile(fs, last.parts[k])
                /\ \A k \in 1..(N - 1) : Len(fs[last.parts[k]].data) = S
                /\ Len(fs[last.parts[N]].data) = L - (N - 1) * S
                /\ Len(fs[last.parts[N]].data) \in 1..S
                /\ SumLen(fs, last.parts) = L

\* a chop whose last part is shorter than the chunk size
C2_Witness ==
    /\ last.op = "chop" /\ last.status = "ok"
    /\ Len(chopped.data) = 3 /\ chopped.chunk = 2
    /\ Len(last.parts) = 2
    /\ Len(fs[last.parts[2]].data) = 1

\* C3: the k-th path chop returns is outputDir/<source name>.part<k as four
\* digits>, for k = 1..N in list order.
C3_PartNames ==
    (last.op = "chop" /\ last.status = "ok")
    => \A k \in 1..Len(last.parts) :
          last.parts[k] = Child(last.dir, Name(last.source)
                                   \o <<".", "p", "a", "r", "t">> \o FourDigits(k))

\* a chop into the output directory that returned three parts
C3_Witness ==
    /\ last.op = "chop" /\ last.status = "ok"
    /\ last.dir = OutDir
    /\ Len(last.parts) = 3
    /\ Name(last.parts[3]) = <<"f", ".", "p", "a", "r", "t", "0", "0", "0", "3">>

\* C4: checksum integrity.  After a chop with verify, one byte of one part is
\* changed; a join of the parts with verify (inferred output path or a new
\* output file) fails with ChecksumMismatch and no file is left at the output
\* path.
C4_ChecksumIntegrity ==
    (/\ JoinsChoppedParts
     /\ chopped.verify /\ last.verify
     /\ OneByteChanged(chopped.post, last.pre, chopped.parts)
     /\ OutputApart)
    => /\ last.status = "ChecksumMismatch"
       /\ ~Exists(fs, ChoppedOutput)

\* the second of two parts was corrupted and the join refused the result
C4_Witness ==
    /\ JoinsChoppedParts
    /\ chopped.verify /\ last.verify
    /\ Len(chopped.parts) = 2
    /\ Exists(last.pre, chopped.parts[2])
    /\ last.pre[chopped.parts[2]] # chopped.post[chopped.parts[2]]
    /\ OneByteChanged(chopped.post, last.pre, chopped.parts)
    /\ last.status = "ChecksumMismatch"

\* C5: missing part detection.  A join whose list names a path that does not
\* exist fails with NotFound and leaves the file system as it was: no output
\* file is produced.
C5_MissingPart ==
    (last.op = "join" /\ \E k \in 1..Len(last.parts) : ~Exists(last.pre, last.parts[k]))
    => /\ last.status = "NotFound"
       /\ fs = last.pre

\* the second of three chopped parts was removed before the join
C5_Witness ==
    /\ JoinsChoppedParts
    /\ Len(last.parts) = 3
    /\ Exists(last.pre, last.parts[1])
    /\ ~Exists(last.pre, last.parts[2])
    /\ last.status = "NotFound"

\* C6: join never mutates its inputs.  After a join, every listed part that
\* existed before the call and the checksum sidecar the call looks for are
\* still there with the content they had before the call.
C6_JoinReadsOnly ==
    (last.op = "join" /\ last.parts # <<>>)
    => LET out == IF last.output = NoPath THEN InferredOutput(last.parts[1])
                  ELSE last.output
           inputs == {last.parts[k] : k \in 1..Len(last.parts)}
                         \cup {ChecksumPath(last.parts, out)}
       IN  \A p \in inputs :
              Exists(last.pre, p) => Exists(fs, p) /\ fs[p] = last.pre[p]

\* C7: chop never changes or removes the source; it removes nothing; the only
\* paths it creates or writes are the output directory (with its missing
\* ancestors), the part files and, only with verify, the sidecar
\* <source name>.sha256 in the output directory.  A successful chop leaves
\* every returned part as a file, and with verify the sidecar.
C7_ChopFrame ==
    LET sidecar == Child(last.dir, Name(last.source) \o SHA256_SUFFIX)
        written == {p \in DOMAIN fs : ~Exists(last.pre, p) \/ fs[p] # last.pre[p]}
    IN  last.op = "chop"
        => /\ DOMAIN last.pre \subseteq DOMAIN fs
           /\ Exists(last.pre, last.source) => fs[last.source] = last.pre[last.source]
           /\ \A p \in written :
                 \/ IsDir(fs, p) /\ p = SubSeq(last.dir, 1, Len(p))
                 \/ \E k \in 1..Len(last.parts) : p = last.parts[k]
                 \/ last.verify /\ p = sidecar
           /\ last.status = "ok" =>
                 /\ IsDir(fs, last.dir)
                 /\ \A k \in 1..Len(last.parts) : IsFile(fs, last.parts[k])
                 /\ last.verify => IsFile(fs, sidecar)

\* a chop without verify that created the output directory and two parts and
\* no sidecar
C7_Witness ==
    /\ last.op = "chop" /\ last.status = "ok"
    /\ ~last.verify
    /\ last.dir = OutDir
    /\ ~Exists(last.pre, OutDir)
    /\ IsDir(fs, OutDir)
    /\ Len(last.parts) = 2
    /\ ~Exists(fs, Child(OutDir, SourceName \o SHA256_SUFFIX))

\* C8: chop fails with the first violated check, in the order: source missing
\* -> NotFound, source a directory -> IsDirectory, chunk size <= 0 ->
\* InvalidArgument, source empty -> EmptyInput; a chop that fails this way
\* leaves the file system as it was.
C8_ChopValidation ==
    last.op = "chop"
    => /\ ~Exists(last.pre, last.source) => last.status = "NotFound"
       /\ IsDir(last.pre, last.source) => last.status = "IsDirectory"
       /\ (IsFile(last.pre, last.source) /\ last.chunk <= 0)
             => last.status = "InvalidArgument"
       /\ (IsFile(last.pre, last.source) /\ last.chunk > 0
               /\ Len(last.pre[last.source].data) = 0)
             => last.status = "EmptyInput"
       /\ last.status \in {"NotFound", "IsDirectory", "InvalidArgument", "EmptyInput"}
             => fs = last.pre

\* an empty source chopped with chunk size 0 into an output directory that
\* does not exist: the chunk size is reported, nothing is created
C8_Witness ==
    /\ last.op = "chop"
    /\ IsFile(last.pre, last.source)
    /\ Len(last.pre[last.source].data) = 0
    /\ last.chunk = 0
    /\ last.dir = OutDir
    /\ last.status = "InvalidArgument"
    /\ ~Exists(fs, OutDir)

\* C9: when the first part is named <base>.partNNNN, a join with verify reads
\* the expected digest only from <first part's directory>/<base>.sha256, and
\* the same join made with any other output path consults the same sidecar
\* and reaches the same verdict (ok or ChecksumMismatch).
C9_OutputIndependent ==
    (/\ last.op = "join" /\ last.verify
     /\ last.parts # <<>>
     /\ PartMatches(Name(last.parts[1])))
    => LET first == last.parts[1]
           verdicts == {"ok", "ChecksumMismatch"}
       IN  /\ last.sidecar # NoPath =>
                 last.sidecar = Child(Parent(first), PartBase(Name(first)) \o SHA256_SUFFIX)
           /\ \A o \in JoinOutputs(last.parts) :
                 LET other == join(last.pre, last.parts, o, TRUE)
                 IN  (last.status \in verdicts /\ other.status \in verdicts)
                        => /\ other.status = last.status
                           /\ other.sidecar = last.sidecar

\* C10: a missing sidecar is no error.  A join with verify and the inferred
\* output path, of parts of one original that all exist as files, with nothing
\* at <first part's directory>/<base>.sha256 and no directory in the output's
\* place, succeeds, returns the output path and leaves there the parts' bytes
\* in list order.
C10_MissingSidecar ==
    LET first == last.parts[1]
        base == PartBase(Name(first))
        out == Child(Parent(first), base)
    IN  (/\ last.op = "join" /\ last.verify /\ last.output = NoPath
         /\ last.parts # <<>>
         /\ \A k \in 1..Len(last.parts) :
               /\ IsFile(last.pre, last.parts[k])
               /\ PartMatches(Name(last.parts[k]))
               /\ PartBase(Name(last.parts[k])) = base
               /\ Parent(last.parts[k]) = Parent(first)
         /\ ~Exists(last.pre, Child(Parent(first), base \o SHA256_SUFFIX))
         /\ ~IsDir(last.pre, out))
        => /\ last.status = "ok"
           /\ last.result = out
           /\ IsFile(fs, out)
           /\ fs[out].data = Concat(last.pre, last.parts)

\* the sidecar a chop had written was removed; the join with verify of the
\* two parts went through and kept its output
C10_Witness ==
    /\ JoinsChoppedParts
    /\ last.verify /\ last.output = NoPath
    /\ chopped.verify
    /\ Exists(chopped.post, ChoppedSidecar)
    /\ ~Exists(last.pre, ChoppedSidecar)
    /\ Len(last.parts) = 2
    /\ last.status = "ok"
    /\ IsFile(fs, ChoppedOutput)
\* ------------------------------------------------------------- parse_size
LowerLetters ==
    <<"a", "b", "c", "d", "e", "f", "g", "h", "i", "j", "k", "l", "m",
      "n", "o", "p", "q", "r", "s", "t", "u", "v", "w", "x", "y", "z">>
UpperLetters ==
    <<"A", "B", "C", "D", "E", "F", "G", "H", "I", "J", "K", "L", "M",
      "N", "O", "P", "Q", "R", "S", "T", "U", "V", "W", "X", "Y", "Z">>

\* the character classes of the size pattern: \d and [A-Za-z]
DigitSet == {DigitChars[i] : i \in 1..10}
LetterSet == {LowerLetters[i] : i \in 1..26} \cup {UpperLetters[i] : i \in 1..26}

\* str.upper() on ASCII text
UpperChar(c) ==
    IF \E i \in 1..26 : LowerLetters[i] = c
    THEN UpperLetters[CHOOSE i \in 1..26 : LowerLetters[i] = c]
    ELSE c
Upper(s) == [i \in 1..Len(s) |-> UpperChar(s[i])]

\* str.strip(): the text without its leading and trailing whitespace
Strip(s) ==
    LET keep == {i \in 1..Len(s) : s[i] \notin Whitespace}
    IN  IF keep = {} THEN <<>>
        ELSE SubSeq(s, CHOOSE i \in keep : \A j \in keep : i <= j,
                       CHOOSE i \in keep : \A j \in keep : j <= i)

\* how many characters of s, from position from on, lie in class cls before the
\* first that does not: what a greedy cls* consumes there
Span(s, from, cls) ==
    CHOOSE n \in 0..(Len(s) - from + 1) :
        /\ \A k \in from..(from + n - 1) : s[k] \in cls
        /\ from + n <= Len(s) => s[from + n] \notin cls

\* re.fullmatch(r"(\d+(?:\.\d+)?)\s*([A-Za-z]*)", s): whether it matches, and
\* its groups 1 and 2
SizeMatch(s) ==
    LET whole == Span(s, 1, DigitSet)
        frac == IF whole + 1 <= Len(s) /\ s[whole + 1] = "."
                THEN Span(s, whole + 2, DigitSet) ELSE 0
        number_end == IF frac > 0 THEN whole + 1 + frac ELSE whole
        blank == Span(s, number_end + 1, Whitespace)
        letters == Span(s, number_end + blank + 1, LetterSet)
    IN  [ok |-> whole > 0 /\ number_end + blank + letters = Len(s),
         number |-> SubSeq(s, 1, number_end),
         unit |-> SubSeq(s, number_end + blank + 1, Len(s))]

\* the units table, each multiplier given by its binary logarithm
\* (1024 ** k = 2 ** (10 * k))
units ==
    (<<"B">> :> 0) @@ (<<"K">> :> 10) @@ (<<"K", "B">> :> 10)
        @@ (<<"M">> :> 20) @@ (<<"M", "B">> :> 20)
        @@ (<<"G">> :> 30) @@ (<<"G", "B">> :> 30)
        @@ (<<"T">> :> 40) @@ (<<"T", "B">> :> 40)

\* Natural numbers of any size (Python's int): the decimal digits, least
\* significant first, without leading zeros; zero is <<>>.
RECURSIVE TopDigit(_, _)
TopDigit(x, i) == IF i = 0 \/ x[i] # 0 THEN i ELSE TopDigit(x, i - 1)
Trim(x) == SubSeq(x, 1, TopDigit(x, Len(x)))

DigitValue(c) == (CHOOSE i \in 1..10 : DigitChars[i] = c) - 1

\* int(ds) for a string of digits
NatOf(ds) == Trim([i \in 1..Len(ds) |-> DigitValue(ds[Len(ds) + 1 - i])])

\* 2 * x
Twice(x) ==
    Trim([i \in 1..(Len(x) + 1) |->
            ((IF i <= Len(x) THEN 2 * x[i] ELSE 0)
                + (IF i > 1 /\ x[i - 1] >= 5 THEN 1 ELSE 0)) % 10])

\* x // 2
Half(x) ==
    Trim([i \in 1..Len(x) |->
            (10 * (IF i < Len(x) THEN x[i + 1] % 2 ELSE 0) + x[i]) \div 2])

\* x + 1
RECURSIVE Succ(_)
Succ(x) ==
    IF x = <<>> THEN <<1>>
    ELSE IF Head(x) < 9 THEN <<Head(x) + 1>> \o Tail(x)
    ELSE <<0>> \o Succ(Tail(x))

\* x < y
RECURSIVE LessFrom(_, _, _)
LessFrom(x, y, i) ==
    IF i = 0 THEN FALSE
    ELSE IF x[i] # y[i] THEN x[i] < y[i]
    ELSE LessFrom(x, y, i - 1)
Less(x, y) == Len(x) < Len(y) \/ (Len(x) = Len(y) /\ LessFrom(x, y, Len(x)))

\* x - y for x >= y
RECURSIVE Borrow(_, _, _)
Borrow(x, y, b) ==
    IF x = <<>> THEN <<>>
    ELSE LET v == Head(x) - (IF y = <<>> THEN 0 ELSE Head(y)) - b
         IN  <<(v + 10) % 10>>
                 \o Borrow(Tail(x), IF y = <<>> THEN <<>> ELSE Tail(y), IF v < 0 THEN 1 ELSE 0)
Minus(x, y) == Trim(Borrow(x, y, 0))

\* x * 2 ** n and x // 2 ** n
RECURSIVE Shl(_, _)
Shl(x, n) == IF n = 0 \/ x = <<>> THEN x ELSE Shl(Twice(x), n - 1)
RECURSIVE Shr(_, _)
Shr(x, n) == IF n = 0 \/ x = <<>> THEN x ELSE Shr(Half(x), n - 1)

\* x // 10 ** n
DropDigits(x, n) == IF n >= Len(x) THEN <<>> ELSE SubSeq(x, n + 1, Len(x))

\* the value of a small natural number as an integer of the model
RECURSIVE IntOf(_)
IntOf(x) == IF x = <<>> THEN 0 ELSE Head(x) + 10 * IntOf(Tail(x))

\* A float is m * 2 ** e with a mantissa m of at most MantissaBits bits, or
\* infinity.
MantissaBits == 53
\* floats reach up to, not including, 2 ** MaxExponent
MaxExponent == 1024

\* the least and the bound of a float's mantissa: 2 ** 52 and 2 ** 53
MantissaMin == Shl(<<1>>, MantissaBits - 1)

MantissaLimit == Shl(<<1>>, MantissaBits)

\* x * 10 ** n
WithZeros(x, n) == IF x = <<>> THEN x ELSE [i \in 1..n |-> 0] \o x

\* the exponent of a number below the mantissa's range: n is doubled until
\* n // 10 ** places has MantissaBits bits
RECURSIVE ScaleUp(_, _)
ScaleUp(s, places) ==
    IF Less(DropDigits(s.n, places), MantissaMin)
    THEN ScaleUp([n |-> Twice(s.n), e |-> s.e - 1], places)
    ELSE s

\* the exponent of a number above the mantissa's range: n is halved until
\* n // 10 ** places has MantissaBits bits (MantissaBits halvings in one step
\* while it has that many bits too many)
RECURSIVE ScaleDown(_, _)
ScaleDown(s, places) ==
    IF Less(DropDigits(s.n, places), MantissaLimit) THEN s
    ELSE IF Less(DropDigits(Shr(s.n, MantissaBits), places), MantissaLimit)
    THEN ScaleDown([n |-> Half(s.n), e |-> s.e + 1], places)
    ELSE ScaleDown([n |-> Shr(s.n, MantissaBits), e |-> s.e + MantissaBits], places)

\* the mantissa and exponent of n / 10 ** places once n was scaled to s.n by
\* 2 ** -s.e (s.e <= 0) or halved s.e times (s.e > 0): round to nearest, ties to
\* the even mantissa; infinity at 2 ** MaxExponent or more
Rounded(s, n, places) ==
    LET q == DropDigits(s.n, places)
        \* what the quotient q leaves of the number, and the unit of q, both
        \* times 10 ** places and, for a negative exponent, 2 ** -s.e
        rest == IF s.e <= 0 THEN Minus(s.n, WithZeros(q, places))
                ELSE Minus(n, Shl(WithZeros(q, places), s.e))
        ulp == IF s.e <= 0 THEN WithZeros(<<1>>, places)
               ELSE Shl(WithZeros(<<1>>, places), s.e)
        m == IF Less(ulp, Twice(rest)) \/ (Twice(rest) = ulp /\ q[1] % 2 = 1)
             THEN Succ(q) ELSE q
        top == MaxExponent - MantissaBits
    IN  IF s.e > top THEN [inf |-> TRUE, m |-> <<>>, e |-> s.e]
        ELSE [inf |-> s.e = top /\ m = MantissaLimit, m |-> m, e |-> s.e]

\* the float nearest to n / 10 ** places
Nearest(n, places) ==
    IF n = <<>> THEN [inf |-> FALSE, m |-> <<>>, e |-> 0]
    ELSE Rounded(IF Less(DropDigits(n, places), MantissaLimit)
                 THEN ScaleUp([n |-> n, e |-> 0], places)
                 ELSE ScaleDown([n |-> n, e |-> 0], places), n, places)

\* float(number_str) for digits with an optional fraction
float(number_str) ==
    LET dot == Span(number_str, 1, DigitSet) + 1
        digits == SelectSeq(number_str, LAMBDA c : c # ".")
        places == IF dot > Len(number_str) THEN 0 ELSE Len(number_str) - dot
    IN  Nearest(NatOf(digits), places)

\* x * 2 ** k: exact unless it leaves the floats' range
Times(x, k) ==
    IF x.inf \/ x.m = <<>> THEN x
    ELSE LET bits == CHOOSE b \in {MantissaBits, MantissaBits + 1} :
                         Less(x.m, Shl(<<1>>, b)) /\ ~Less(x.m, Shl(<<1>>, b - 1))
         IN  [x EXCEPT !.e = x.e + k, !.inf = x.e + k + bits > MaxExponent]

\* int(x) of a finite float: the integer part
int(x) == IF x.e >= 0 THEN Shl(x.m, x.e) ELSE Shr(x.m, 0 - x.e)

\* parse_size(size_str): the byte count, or the kind of the error raised
parse_size(size_str) ==
    LET m == SizeMatch(Strip(size_str))
        unit == IF Upper(m.unit) = <<>> THEN <<"B">> ELSE Upper(m.unit)
        product == Times(float(m.number), units[unit])
        res(kind, n) == [status |-> kind, value |-> n]
    IN  IF ~m.ok THEN res("InvalidFormat", <<>>)
        ELSE IF unit \notin DOMAIN units THEN res("UnknownUnit", <<>>)
        ELSE IF product.inf THEN res("OverflowError", <<>>)
        ELSE res("ok", int(product))

\* -------------------------------------------- specification: parse_size
\* longest run of blanks put around and inside a SIZE string
MaxPad == 1

Blanks == {[i \in 1..n |-> " "] : n \in 0..MaxPad}

\* the numerals of the SIZE strings: whole numbers, fractions and malformed
\* numerals
SizeNumbers ==
    {<<"0">>, <<"1">>, <<"2">>, <<"5", "1", "2">>, <<"1", "0", "0">>,
     <<"1", ".", "5">>, <<"0", ".", "5">>, <<"0", ".", "1">>,
     <<"1", ".">>, <<".", "5">>, <<>>, <<"1", ".", "5", ".", "2">>, <<"-", "1">>}

\* numerals beyond the precision of a float (2 ** 53 + 1 and 3 - 10 ** -19) and
\* beyond its range (10 ** 309)
LongNumbers ==
    {<<"9", "0", "0", "7", "1", "9", "9", "2", "5", "4", "7", "4", "0", "9", "9", "3">>,
     <<"2", ".">> \o [i \in 1..19 |-> "9"],
     <<"1">> \o [i \in 1..309 |-> "0"]}

SizeUnits ==
    {<<>>, <<"B">>, <<"b">>, <<"K">>, <<"K", "B">>, <<"k", "b">>, <<"M">>, <<"M", "B">>,
     <<"m", "B">>, <<"G">>, <<"G", "B">>, <<"T">>, <<"T", "B">>,
     <<"X", "B">>, <<"K", "i", "B">>, <<"b", "a", "d">>}

NoSize == [op |-> "none", pre |-> <<>>, number |-> <<>>, mid |-> <<>>, unit |-> <<>>,
           post |-> <<>>, size_str |-> <<>>, status |-> "none", value |-> <<>>]

\* a SIZE string: blanks, a numeral, blanks, a unit, blanks (no blanks with the
\* long numerals)
InitParse ==
    /\ fs = (Root :> DirEntry)
    /\ \E pre \in Blanks, n \in SizeNumbers \cup LongNumbers, mid \in Blanks,
           u \in SizeUnits, post \in Blanks \cup {<<"\n">>} :
           /\ n \in LongNumbers => pre = <<>> /\ mid = <<>> /\ post = <<>>
           /\ last = [NoSize EXCEPT !.pre = pre, !.number = n, !.mid = mid, !.unit = u,
                          !.post = post, !.size_str = pre \o n \o mid \o u \o post]
    /\ chopped = NoChop
    /\ chops = 0
    /\ tampers = 0

\* a call of parse_size(size_str)
ParseSize ==
    LET r == parse_size(last.size_str)
    IN  /\ last.op = "none"
        /\ last' = [last EXCEPT !.op = "parse_size", !.status = r.status, !.value = r.value]
        /\ UNCHANGED <<fs, chopped, chops, tampers>>

NextParse == ParseSize

SpecParse == InitParse /\ [][NextParse]_vars

\* a numeral: digits, with at most one "." that has digits on both sides
IsNumeral(w) ==
    LET dots == {i \in 1..Len(w) : w[i] = "."}
    IN  /\ Len(w) > 0
        /\ \A i \in (1..Len(w)) \ dots : w[i] \in DigitSet
        /\ Cardinality(dots) <= 1
        /\ \A i \in dots : 1 < i /\ i < Len(w)

\* where the longest tail of s made of characters of cls starts
TailStart(s, cls) ==
    CHOOSE j \in 1..(Len(s) + 1) :
        /\ \A k \in j..Len(s) : s[k] \in cls
        /\ j > 1 => s[j - 1] \notin cls

\* the letters a text ends with, and what stands before them, blanks dropped
TrailingLetters(s) == SubSeq(s, TailStart(s, LetterSet), Len(s))
BeforeLetters(s) ==
    LET head == SubSeq(s, 1, TailStart(s, LetterSet) - 1)
    IN  SubSeq(head, 1, TailStart(head, Whitespace) - 1)

\* the text, surrounding whitespace aside, is a number followed by optional letters
NumberThenLetters(text) == IsNumeral(BeforeLetters(Strip(text)))

\* the unit spellings of the claims, one-letter and two-letter
UnitLetters == <<"B", "K", "M", "G", "T">>
KnownSpellings ==
    {<<UnitLetters[k]>> : k \in 1..5} \cup {<<UnitLetters[k], "B">> : k \in 2..5}

\* floor(N * 1024 ** k) for the numeral N
FloorOfProduct(numeral, k) ==
    LET dots == {i \in 1..Len(numeral) : numeral[i] = "."}
        places == IF dots = {} THEN 0 ELSE Len(numeral) - (CHOOSE i \in dots : TRUE)
    IN  DropDigits(Shl(NatOf(SelectSeq(numeral, LAMBDA c : c # ".")), 10 * k), places)

\* the power of 1024 the claim gives a unit: none or B 0, K/KB 1, M/MB 2, ...
PowerOf(unit) ==
    IF unit = <<>> THEN 0
    ELSE (CHOOSE k \in 1..5 : UnitLetters[k] = Upper(unit)[1]) - 1

\* C16: parse(text) of a number N followed by an optional unit is
\* floor(N * m), with m = 1024 ** k for the k of the unit, whatever the case of
\* the unit and the whitespace around; a one-letter unit and its two-letter
\* spelling give the same result
C16_ParseFloor ==
    (last.op = "parse_size" /\ IsNumeral(last.number)
        /\ (last.unit = <<>> \/ Upper(last.unit) \in KnownSpellings))
    =>  /\ last.status = "ok"
        /\ last.value = FloorOfProduct(last.number, PowerOf(last.unit))
        /\ (Len(last.unit) = 1 /\ Upper(last.unit) # <<"B">>)
           => parse_size(last.pre \o last.number \o last.mid \o last.unit \o <<"B">>
                             \o last.post) = [status |-> last.status, value |-> last.value]

\* C17: parse(text) fails with InvalidFormat exactly when the stripped text is
\* not a number followed by optional letters, with UnknownUnit exactly when it
\* has that shape and the letters are no known unit, and returns a byte count
\* for every other text
C17_ParseErrors ==
    last.op = "parse_size" =>
        LET shaped == NumberThenLetters(last.size_str)
            letters == Upper(TrailingLetters(Strip(last.size_str)))
            known == letters = <<>> \/ letters \in KnownSpellings
        IN  /\ last.status = "InvalidFormat" <=> ~shaped
            /\ last.status = "UnknownUnit" <=> (shaped /\ ~known)
            /\ (shaped /\ known) => last.status = "ok"

\* ------------------------------------------------------------- find_parts
\* ord(c) for the characters of file names
Ord(c) ==
    IF c = "." THEN 46
    ELSE IF c \in DigitSet THEN 48 + DigitValue(c)
    ELSE IF \E i \in 1..26 : UpperLetters[i] = c
    THEN 64 + (CHOOSE i \in 1..26 : UpperLetters[i] = c)
    ELSE 96 + (CHOOSE i \in 1..26 : LowerLetters[i] = c)

\* a < b for two names, as Python orders strings: by the first character that
\* differs, a proper prefix first
NameLess(a, b) ==
    \E k \in 1..(Len(b)) :
        /\ k - 1 <= Len(a)
        /\ SubSeq(a, 1, k - 1) = SubSeq(b, 1, k - 1)
        /\ k > Len(a) \/ Ord(a[k]) < Ord(b[k])

\* p < q for two paths, as pathlib orders them: part by part
PathLess(p, q) ==
    \E k \in 1..Len(q) :
        /\ k - 1 <= Len(p)
        /\ SubSeq(p, 1, k - 1) = SubSeq(q, 1, k - 1)
        /\ k > Len(p) \/ NameLess(p[k], q[k])

\* sorted(paths)
RECURSIVE Sorted(_)
Sorted(paths) ==
    IF paths = <<>> THEN <<>>
    ELSE LET rest == Sorted(Tail(paths))
             before == SelectSeq(rest, LAMBDA q : PathLess(q, Head(paths)))
             after == SelectSeq(rest, LAMBDA q : ~PathLess(q, Head(paths)))
         IN  before \o <<Head(paths)>> \o after

\* the entries of a directory
Children(fsys, dir) == {p \in DOMAIN fsys : Len(p) = Len(dir) + 1 /\ Parent(p) = dir}

\* the orders in which a directory may enumerate its entries
Listings(fsys, dir) ==
    LET entries == Children(fsys, dir)
        n == Cardinality(entries)
    IN  {l \in [1..n -> entries] : \A i, j \in 1..n : i # j => l[i] # l[j]}

\* the name matches the glob pattern f"{base_name}.part*"
GlobMatches(name, base_name) ==
    LET prefix == base_name \o <<".", "p", "a", "r", "t">>
    IN  Len(name) >= Len(prefix) /\ SubSeq(name, 1, Len(prefix)) = prefix

\* find_parts(directory, base_name), the directory enumerating its entries in
\* the order of listing
find_parts(listing, base_name) ==
    LET candidates == Sorted(SelectSeq(listing, LAMBDA p : GlobMatches(Name(p), base_name)))
        parts == SelectSeq(candidates, LAMBDA p : PartMatches(Name(p)))
    IN  IF parts = <<>> THEN [status |-> "NotFound", parts |-> <<>>]
        ELSE [status |-> "ok", parts |-> parts]

\* ---------------------------------------------- specification: find_parts
\* number of entries in the searched directory
MaxEntries == 3

\* names a directory may hold beside the parts of "f": parts of a file that is
\* itself named like a part, names that only start like a part, parts of
\* another file, the sidecar and the original
EntryNames ==
    {SourceName \o PART_SUFFIX_TEMPLATE(k) : k \in {1, 2, 10}}
        \cup {SourceName \o PART_SUFFIX_TEMPLATE(k) \o PART_SUFFIX_TEMPLATE(1) : k \in {1, 2}}
        \cup {SourceName \o <<".", "p", "a", "r", "t">> \o tail :
                 tail \in {<<"i", "a", "l">>, <<"0", "0", "1">>, <<"1", "0", "0", "0", "0">>}}
        \cup {<<"g">> \o PART_SUFFIX_TEMPLATE(1), SourceName \o SHA256_SUFFIX, SourceName}

BaseNames == {SourceName, <<"g">>, SourceName \o PART_SUFFIX_TEMPLATE(1)}

NoFind == [op |-> "none", base_name |-> <<>>, listing |-> <<>>, status |-> "none", parts |-> <<>>]

\* a directory d holding up to MaxEntries files
InitFind ==
    /\ \E names \in SUBSET EntryNames :
           /\ Cardinality(names) <= MaxEntries
           /\ fs = [p \in {Root, SrcDir} \cup {Child(SrcDir, n) : n \in names} |->
                       IF Len(p) < 2 THEN DirEntry ELSE FileEntry(<<>>)]
    /\ last = NoFind
    /\ chopped = NoChop
    /\ chops = 0
    /\ tampers = 0

\* a call of find_parts(d, base_name) during which d enumerates its entries in
\* the order of listing
FindParts(base_name, listing) ==
    LET r == find_parts(listing, base_name)
    IN  /\ last.op = "none"
        /\ last' = [op |-> "find_parts", base_name |-> base_name, listing |-> listing,
                    status |-> r.status, parts |-> r.parts]
        /\ UNCHANGED <<fs, chopped, chops, tampers>>

NextFind == \E b \in BaseNames : \E l \in Listings(fs, SrcDir) : FindParts(b, l)

SpecFind == InitFind /\ [][NextFind]_vars

\* the index a part name ends with
IndexOf(name) == IntOf(NatOf(SubSeq(name, Len(name) - 3, Len(name))))

\* the name is base_name, ".part" and four digits
IsPartOf(name, base_name) ==
    /\ Len(name) = Len(base_name) + 9
    /\ SubSeq(name, 1, Len(base_name) + 5) = base_name \o <<".", "p", "a", "r", "t">>
    /\ \A i \in (Len(name) - 3)..Len(name) : name[i] \in DigitSet

\* C11: findParts(dir, base) returns the matching part files in strictly
\* ascending index order, whatever the order in which the directory
\* enumerates its entries, and fails with NotFound when no entry matches
C11_FindOrder ==
    last.op = "find_parts" =>
        /\ \A i, j \in 1..Len(last.parts) :
               i < j => IndexOf(Name(last.parts[i])) < IndexOf(Name(last.parts[j]))
        /\ \A l \in Listings(fs, SrcDir) :
               find_parts(l, last.base_name).parts = last.parts
        /\ last.status = "NotFound"
               <=> ~\E p \in Children(fs, SrcDir) : IsPartOf(Name(p), last.base_name)

\* C12: every path findParts(dir, base) returns is named base, ".part" and
\* four digits; the parts of another original contribute nothing
C12_FindOwnParts ==
    last.op = "find_parts" =>
        \A i \in 1..Len(last.parts) : IsPartOf(Name(last.parts[i]), last.base_name)

\* -------------------------------------------------------------- chop command
\* what a command handler leaves: the exit code it returns (for an exception it
\* does not catch: the name of the exception, and as exit code the status 1
\* with which the interpreter then ends), the file system, and what it listed
Outcome(code, exception, fsys, kind, paths, listed) ==
    [exit |-> code, raised |-> exception, fs |-> fsys, status |-> kind, parts |-> paths,
     listing |-> listed]

\* a dry run that creates the output directory before it lists the parts
DryRunMakingDir(fsys, source, dest, chunk_size) ==
    LET file_size == Len(fsys[source].data)
        num_parts == (file_size + chunk_size - 1) \div chunk_size
    IN  Outcome(0, "none", Mkdirs(fsys, dest).fs, "dry-run", <<>>,
                [i \in 1..num_parts |->
                    [path |-> Child(dest, Name(source) \o <<".", "p", "a", "r", "t">>
                                              \o ZeroPad(DecDigits(i), 4)),
                     size |-> IF i < num_parts THEN chunk_size
                              ELSE file_size - (num_parts - 1) * chunk_size]])

\* a dry run that lists every part with the chunk size, the last one too
DryRunEqualParts(fsys, source, dest, chunk_size) ==
    LET file_size == Len(fsys[source].data)
        num_parts == (file_size + chunk_size - 1) \div chunk_size
    IN  Outcome(0, "none", fsys, "dry-run", <<>>,
                [i \in 1..num_parts |->
                    [path |-> Child(dest, Name(source) \o <<".", "p", "a", "r", "t">>
                                              \o ZeroPad(DecDigits(i), 4)),
                     size |-> chunk_size]])

\* the --dry-run branch of _cmd_chop: the names and sizes of the parts it
\* would create, nothing written
DryRun(fsys, source, dest, chunk_size) ==
    LET file_size == Len(fsys[source].data)
        num_parts == (file_size + chunk_size - 1) \div chunk_size
    IN  Outcome(0, "none", fsys, "dry-run", <<>>,
                [i \in 1..num_parts |->
                    [path |-> Child(dest, Name(source) \o <<".", "p", "a", "r", "t">>
                                              \o ZeroPad(DecDigits(i), 4)),
                     size |-> IF i < num_parts THEN chunk_size
                              ELSE file_size - (num_parts - 1) * chunk_size]])

\* the SIZE arguments: the byte counts 0..MaxChunk, a fraction below one byte,
\* a fraction above, a unit, a text that is no size and an unknown unit
SizeArgs ==
    {DecDigits(n) : n \in 0..MaxChunk}
        \cup {<<"0", ".", "5">>, <<"1", ".", "5">>, <<"1", "K">>, <<"x">>, <<"1", "X">>}

\* parse_size(args.size) for each SIZE argument, computed once
ParsedSize == [size \in SizeArgs |-> parse_size(size)]

\* what _cmd_chop returns after the call of chop: 0, or 1 for the errors it
\* catches (FileNotFoundError, IsADirectoryError, ValueError, OSError)
Chopped(r) ==
    Outcome(IF r.status = "ok" THEN 0 ELSE 1, "none", r.fs, r.status, r.parts, <<>>)

\* _cmd_chop from the result of parse_size on
ChopParsed(fsys, file, parsed, output_dir, no_verify, dry_run) ==
    LET chunk_size == IntOf(parsed.value)
        dest == IF output_dir = NoPath THEN Parent(file) ELSE output_dir
    IN  IF parsed.status \in {"InvalidFormat", "UnknownUnit"}
        THEN Outcome(1, "none", fsys, parsed.status, <<>>, <<>>)
        ELSE IF parsed.status # "ok"
        THEN Outcome(1, parsed.status, fsys, parsed.status, <<>>, <<>>)
        ELSE IF ~Exists(fsys, file) THEN Outcome(1, "none", fsys, "NotFound", <<>>, <<>>)
        ELSE IF IsDir(fsys, file) THEN Outcome(1, "none", fsys, "IsDirectory", <<>>, <<>>)
        ELSE IF Len(fsys[file].data) = 0 THEN Outcome(1, "none", fsys, "EmptyInput", <<>>, <<>>)
        ELSE IF chunk_size = 0
        THEN Outcome(1, "ZeroDivisionError", fsys, "ZeroDivisionError", <<>>, <<>>)
        ELSE IF dry_run THEN DryRun(fsys, file, dest, chunk_size)
        ELSE Chopped(chop(fsys, file, chunk_size, output_dir, ~no_verify))

\* _cmd_chop(args) for chop FILE --size SIZE [--output-dir DIR] [--no-verify]
\* [--dry-run]
cmd_chop(fsys, file, size, output_dir, no_verify, dry_run) ==
    ChopParsed(fsys, file, ParsedSize[size], output_dir, no_verify, dry_run)

\* ------------------------------------------ specification: the chop command
NoCommand ==
    [op |-> "none", file |-> NoPath, size |-> <<>>, output_dir |-> NoPath,
     no_verify |-> FALSE, dry_run |-> FALSE, exit |-> 0, raised |-> "none",
     status |-> "none", parts |-> <<>>, listing |-> <<>>, pre |-> <<>>]

\* the initial file systems, and each of them with a regular file where the
\* output directory o would go
InitChopCmd ==
    /\ fs \in InitialFileSystems \cup {Put(f, OutDir, FileEntry(<<>>)) : f \in InitialFileSystems}
    /\ last = NoCommand
    /\ chopped = NoChop
    /\ chops = 0
    /\ tampers = 0

\* a run of the chop command, one in a behaviour
CmdChop(file, size, output_dir, no_verify, dry_run) ==
    LET r == cmd_chop(fs, file, size, output_dir, no_verify, dry_run)
    IN  /\ last.op = "none"
        /\ fs' = r.fs
        /\ last' = [op |-> "cmd_chop", file |-> file, size |-> size,
                    output_dir |-> output_dir, no_verify |-> no_verify, dry_run |-> dry_run,
                    exit |-> r.exit, raised |-> r.raised, status |-> r.status,
                    parts |-> r.parts, listing |-> r.listing, pre |-> fs]
        /\ chops' = chops + 1
        /\ UNCHANGED <<chopped, tampers>>

NextChopCmd ==
    \E s \in SizeArgs, d \in OutputDirs, nv \in BOOLEAN, dry \in BOOLEAN :
        CmdChop(Source, s, d, nv, dry)

SpecChopCmd == InitChopCmd /\ [][NextChopCmd]_vars

\* the SIZE argument denotes a positive number of bytes: a numeral with a known
\* unit or none, at least one byte
PositiveSize(size) ==
    LET text == Strip(size)
    IN  /\ NumberThenLetters(text)
        /\ TrailingLetters(text) = <<>> \/ Upper(TrailingLetters(text)) \in KnownSpellings
        /\ FloorOfProduct(BeforeLetters(text), PowerOf(TrailingLetters(text))) # <<>>

\* the source of the command is a regular file with at least one byte
NonEmptySource == IsFile(last.pre, last.file) /\ Len(last.pre[last.file].data) > 0

\* C13: the chop command ends with exit code 0 or 1 for every SIZE and every
\* source: 0 on success and on a dry run, 1 on every error, an unparsable SIZE
\* and a SIZE that is no positive byte count among them; no exception escapes
C13_ChopExit ==
    last.op = "cmd_chop" =>
        /\ last.raised = "none"
        /\ last.exit \in {0, 1}
        /\ (~PositiveSize(last.size) \/ ~NonEmptySource) => last.exit = 1
        /\ (PositiveSize(last.size) /\ NonEmptySource /\ last.dry_run) => last.exit = 0
        /\ (last.exit = 0 /\ ~last.dry_run)
           => (last.parts # <<>> /\ \A k \in 1..Len(last.parts) : IsFile(fs, last.parts[k]))

\* C19: chop --dry-run on an existing non-empty file with a valid SIZE returns
\* exit code 0 and leaves the file system unchanged
C19_DryRun ==
    (last.op = "cmd_chop" /\ last.dry_run /\ NonEmptySource /\ PositiveSize(last.size))
    =>  /\ last.raised = "none"
        /\ last.exit = 0
        /\ fs = last.pre

C19_Witness ==
    /\ last.op = "cmd_chop"
    /\ last.dry_run
    /\ NonEmptySource
    /\ PositiveSize(last.size)
    /\ last.output_dir = OutDir
    /\ Len(last.listing) = 2
    /\ last.exit = 0

\* -------------------------------------------------------------- join command
\* ".part" in raw_parts[0]: the text of the path holds ".part"
ContainsPart(p) ==
    \E k \in 1..Len(p) : \E i \in 1..(Len(p[k]) - 4) :
        SubSeq(p[k], i, i + 4) = <<".", "p", "a", "r", "t">>

\* the entries of a directory in one order of enumeration (find_parts sorts
\* what it finds)
RECURSIVE Enumerated(_)
Enumerated(entries) ==
    IF entries = {} THEN <<>>
    ELSE LET p == CHOOSE q \in entries : TRUE
         IN  <<p>> \o Enumerated(entries \ {p})

\* the list of part files _cmd_join resolves from its arguments: the parts
\* found in a directory for --base, the siblings of a single .partNNNN file, or
\* the paths as given
ResolveParts(fsys, raw_parts, base) ==
    LET first == raw_parts[1]
    IN  IF Len(raw_parts) = 1 /\ IsDir(fsys, first)
        THEN IF base = <<>> THEN [status |-> "NoBase", parts |-> <<>>]
             ELSE find_parts(Enumerated(Children(fsys, first)), base)
        ELSE IF Len(raw_parts) = 1 /\ ContainsPart(first)
        THEN IF PartMatches(Name(first))
             THEN find_parts(Enumerated(Children(fsys, Parent(first))), PartBase(Name(first)))
             ELSE [status |-> "ok", parts |-> <<first>>]
        ELSE [status |-> "ok", parts |-> raw_parts]

\* the states a run of join passes through, from its result: validation of the
\* list, writing of the output, the verification step, and how it ends there
JoinPhases(r) ==
    IF r.status \in {"InvalidArgument", "NotFound"} THEN <<"Validating", "ValidationFailed">>
    ELSE IF r.status = "IOError" /\ r.sidecar = NoPath
    THEN <<"Validating", "Writing", "WriteFailed">>
    ELSE <<"Validating", "Writing", "Verifying",
           IF r.status = "ok" THEN "Verified"
           ELSE IF r.status = "ChecksumMismatch" THEN "Failed"
           ELSE r.status>>

\* what a run of the join command leaves
JoinOutcome(code, exception, kind, paths, r, called) ==
    [exit |-> code, raised |-> exception, status |-> kind, found |-> paths, fs |-> r.fs,
     result |-> r.result, joined |-> called,
     phases |-> IF called THEN JoinPhases(r) ELSE <<>>]

\* what _cmd_join returns after the call of join: 0, 1 for FileNotFoundError
\* and OSError, 2 for ValueError; any other exception is not caught
Joined(parts, r) ==
    IF r.status = "ok" THEN JoinOutcome(0, "none", "ok", parts, r, TRUE)
    ELSE IF r.status \in {"NotFound", "IOError"}
    THEN JoinOutcome(1, "none", r.status, parts, r, TRUE)
    ELSE IF r.status \in {"InvalidArgument", "ChecksumMismatch"}
    THEN JoinOutcome(2, "none", r.status, parts, r, TRUE)
    ELSE JoinOutcome(1, r.status, r.status, parts, r, TRUE)

\* _cmd_join from the resolved list on
JoinResolved(fsys, resolved, output, no_verify) ==
    LET none == [fs |-> fsys, result |-> NoPath]
    IN  IF resolved.status # "ok"
        THEN JoinOutcome(1, "none", resolved.status, <<>>, none, FALSE)
        ELSE IF FirstMissing(fsys, resolved.parts) # 0
        THEN JoinOutcome(1, "none", "NotFound", resolved.parts, none, FALSE)
        ELSE Joined(resolved.parts, join(fsys, resolved.parts, output, ~no_verify))

\* _cmd_join(args) for join PARTS... [--base NAME] [--output FILE] [--no-verify]
cmd_join(fsys, raw_parts, base, output, no_verify) ==
    JoinResolved(fsys, ResolveParts(fsys, raw_parts, base), output, no_verify)

\* ------------------------------------------ specification: the join command
\* the chops that may have run before: a non-empty source chopped with its
\* sidecar into SrcDir or OutDir
EarlierChops ==
    {[source |-> Source, data |-> f[Source].data, chunk |-> c, dir |-> d, verify |-> TRUE,
      r |-> chop(f, Source, c, IF d = SrcDir THEN NoPath ELSE d, TRUE)] :
        f \in {g \in InitialFileSystems : IsFile(g, Source) /\ Len(g[Source].data) > 0},
        c \in 1..MaxChunk, d \in {SrcDir, OutDir}}

InitJoinCmd ==
    /\ \E e \in EarlierChops :
           /\ fs = e.r.fs
           /\ chopped = [done |-> TRUE, source |-> e.source, data |-> e.data,
                         chunk |-> e.chunk, dir |-> e.dir, verify |-> e.verify,
                         status |-> e.r.status, parts |-> e.r.parts, post |-> e.r.fs]
    /\ last = NoCall
    /\ chops = 0
    /\ tampers = 0

\* outside the program: a file is emptied
Truncate(p) ==
    /\ tampers < MaxTamper
    /\ IsFile(fs, p)
    /\ fs[p].data # <<>>
    /\ fs' = Put(fs, p, FileEntry(<<>>))
    /\ last' = [NoCall EXCEPT !.op = "truncate", !.parts = <<p>>, !.pre = fs]
    /\ tampers' = tampers + 1
    /\ UNCHANGED <<chopped, chops>>

\* a run of the join command; a behaviour ends with it
CmdJoin(raw_parts, base, output, no_verify) ==
    LET r == cmd_join(fs, raw_parts, base, output, no_verify)
    IN  /\ fs' = r.fs
        /\ last' = [op |-> "cmd_join", parts |-> raw_parts, base |-> base, output |-> output,
                    no_verify |-> no_verify, exit |-> r.exit, raised |-> r.raised,
                    status |-> r.status, found |-> r.found, result |-> r.result,
                    joined |-> r.joined, phases |-> r.phases, pre |-> fs, before |-> last.op]
        /\ UNCHANGED <<chopped, chops, tampers>>

\* the PARTS and --base arguments: the directory of the parts with and without
\* --base, one part of the last chop, or all of them
JoinArgs ==
    {[parts |-> <<chopped.dir>>, base |-> b] : b \in {<<>>, SourceName}}
        \cup {[parts |-> <<p>>, base |-> <<>>] : p \in ChoppedParts}
        \cup {[parts |-> chopped.parts, base |-> <<>>]}

\* the source is chopped again into the same directory, a part is removed, the
\* sidecar is emptied, or the join command runs
NextJoinCmd ==
    /\ last.op # "cmd_join"
    /\ \/ \E c \in 1..MaxChunk, v \in BOOLEAN :
              Chop(Source, c, IF chopped.dir = SrcDir THEN NoPath ELSE chopped.dir, v)
       \/ \E p \in ChoppedParts : Remove(p)
       \/ Truncate(ChoppedSidecar)
       \/ \E a \in JoinArgs : \E o \in {NoPath, Child(OutDir, <<"r">>)}, nv \in BOOLEAN :
              CmdJoin(a.parts, a.base, o, nv)

SpecJoinCmd == InitJoinCmd /\ [][NextJoinCmd]_vars

\* the path at which the join command of the last step puts the reassembled file
CmdJoinOutput ==
    IF last.output = NoPath THEN Child(chopped.dir, Name(chopped.source)) ELSE last.output

\* C14: the join command ends with exit code 0, 1 or 2 for every argument list
\* and every state of the parts directory, an empty sidecar included: 0 on
\* success, 1 on not-found and argument errors, 2 exactly on a checksum
\* mismatch; no exception escapes
C14_JoinExit ==
    last.op = "cmd_join" =>
        /\ last.raised = "none"
        /\ last.exit \in {0, 1, 2}
        /\ last.exit = 0 <=> (last.joined /\ last.result # NoPath)
        /\ last.exit = 2 <=> last.status = "ChecksumMismatch"
        /\ (IsDir(last.pre, last.parts[1]) /\ last.base = <<>>) => last.exit = 1
        /\ (\E k \in 1..Len(last.found) : ~Exists(last.pre, last.found[k])) => last.exit = 1
        /\ (~last.joined) => (last.exit = 1 /\ fs = last.pre)

\* C15: after a chop with verification and the removal of one part file, the
\* join command on a single remaining part file, verification on, ends with a
\* non-zero exit code and leaves no file at the output path
C15_MissingPartJoin ==
    (/\ last.op = "cmd_join"
     /\ last.before = "remove"
     /\ chopped.status = "ok"
     /\ chopped.verify
     /\ ~last.no_verify
     /\ Len(last.parts) = 1
     /\ last.parts[1] \in ChoppedParts
     /\ Exists(last.pre, last.parts[1]))
    =>  /\ last.exit # 0
        /\ ~Exists(fs, CmdJoinOutput)

\* C18: a run of join goes Validating -> Writing -> Verifying -> Verified, or
\* from Verifying to Failed with the output deleted, or from Writing to
\* WriteFailed, or fails in Validating; Verified is the only end in which join
\* returns the output path
C18_JoinStates ==
    (last.op = "cmd_join" /\ last.joined) =>
        /\ last.phases \in {<<"Validating", "ValidationFailed">>,
                            <<"Validating", "Writing", "WriteFailed">>,
                            <<"Validating", "Writing", "Verifying", "Verified">>,
                            <<"Validating", "Writing", "Verifying", "Failed">>}
        /\ last.phases[Len(last.phases)] = "Failed" => ~Exists(fs, CmdJoinOutput)
        /\ last.result # NoPath <=> last.phases[Len(last.phases)] = "Verified"

\* C28: after any sequence of chops of the same source name into the same
\* directory, find_parts on that directory followed by join with verification
\* gives the source as it was at the most recent chop: the join command on the
\* directory with --base ends with exit code 0 and the reassembled file holds
\* the bytes the last chop read
C28_StaleParts ==
    (/\ last.op = "cmd_join"
     /\ tampers = 0
     /\ chopped.status = "ok"
     /\ last.parts = <<chopped.dir>>
     /\ last.base = Name(chopped.source)
     /\ ~last.no_verify)
    =>  /\ last.exit = 0
        /\ IsFile(fs, CmdJoinOutput)
        /\ fs[CmdJoinOutput].data = chopped.data

\* ------------------------------------------------------------- segmenter
SUPPORTED_PLAIN == {<<".", "t", "x", "t">>, <<".", "c", "s", "v">>, <<".", "m", "d">>}
SUPPORTED_HTML == {<<".", "h", "t", "m", "l">>, <<".", "h", "t", "m">>}
OUT_OF_SCOPE_FORMATS == {<<".", "d", "o", "c">>, <<".", "p", "p", "t">>, <<".", "x", "l", "s">>}

\* str.lower() on the letters of file names
LowerChar(c) ==
    IF \E i \in 1..26 : UpperLetters[i] = c
    THEN LowerLetters[CHOOSE i \in 1..26 : UpperLetters[i] = c]
    ELSE c
Lower(s) == [i \in 1..Len(s) |-> LowerChar(s[i])]

\* pathlib's PurePath.suffix: from the last dot on, empty when the name has no
\* dot or only a leading or a trailing one
Suffix(name) ==
    IF LastDot(name) > 1 /\ LastDot(name) < Len(name)
    THEN SubSeq(name, LastDot(name), Len(name))
    ELSE <<>>

\* the UTF-8 encoding of a character: one byte for "a", two for U+00E9, three
\* for the replacement character U+FFFD
Utf8(c) ==
    IF c = "U+00E9" THEN <<"0xC3", "0xA9">>
    ELSE IF c = "U+FFFD" THEN <<"0xEF", "0xBF", "0xBD">>
    ELSE <<c>>

\* str.encode("utf-8"), as write_text(chunk, encoding="utf-8") stores a text
Encode(text) == Flatten([i \in 1..Len(text) |-> Utf8(text[i])])

\* bytes.decode("utf-8", errors="replace"), as _extract_text_plain reads a
\* file: a byte that starts or continues no character becomes U+FFFD
RECURSIVE Decode(_)
Decode(data) ==
    IF data = <<>> THEN <<>>
    ELSE IF Len(data) >= 2 /\ data[1] = "0xC3" /\ data[2] = "0xA9"
    THEN <<"U+00E9">> \o Decode(SubSeq(data, 3, Len(data)))
    ELSE IF Len(data) >= 3 /\ SubSeq(data, 1, 3) = <<"0xEF", "0xBF", "0xBD">>
    THEN <<"U+FFFD">> \o Decode(SubSeq(data, 4, Len(data)))
    ELSE IF Head(data) \in {"0xC3", "0xA9", "0xEF", "0xBF", "0xBD"}
    THEN <<"U+FFFD">> \o Decode(Tail(data))
    ELSE <<Head(data)>> \o Decode(Tail(data))

\* _extract_html_text on the raw text of a document made of the letter "a",
\* "<" and ">" (no script or style element, no character reference, so
\* html.unescape changes nothing): HTMLParser.feed passes on the text outside
\* tags; "<" and a letter open a tag that ends with the next ">", "<" before
\* another character is text; a tag that is not closed, or a "<" at the very
\* end, waits in the parser for more input and is never passed on
RECURSIVE extract_html_text(_)
extract_html_text(raw) ==
    LET opens == {i \in 1..Len(raw) : raw[i] = "<"}
        closes == {i \in 1..Len(raw) : raw[i] = ">"}
        first(set) == CHOOSE i \in set : \A j \in set : i <= j
    IN  IF raw = <<>> THEN <<>>
        ELSE IF Head(raw) # "<"
        THEN IF opens = {} THEN raw
             ELSE SubSeq(raw, 1, first(opens) - 1)
                      \o extract_html_text(SubSeq(raw, first(opens), Len(raw)))
        ELSE IF Len(raw) = 1 THEN <<>>
        ELSE IF raw[2] = "a"
        THEN IF closes = {} THEN <<>>
             ELSE extract_html_text(SubSeq(raw, first(closes) + 1, Len(raw)))
        ELSE <<"<">> \o extract_html_text(Tail(raw))

\* extract_text(path) for the formats read without a third-party library
extract_text(fsys, path) ==
    IF Lower(Suffix(Name(path))) \in SUPPORTED_HTML
    THEN extract_html_text(Decode(fsys[path].data))
    ELSE Decode(fsys[path].data)

\* a split that keeps the full chunks only and drops a shorter last one
RECURSIVE SplitFullChunksOnly(_, _)
SplitFullChunksOnly(text, max_chars) ==
    IF Len(text) < max_chars THEN <<>>
    ELSE <<SubSeq(text, 1, max_chars)>>
             \o SplitFullChunksOnly(SubSeq(text, max_chars + 1, Len(text)), max_chars)

\* _split_text_into_chunks(text, max_chars) for max_chars > 0
RECURSIVE split_text_into_chunks(_, _)
split_text_into_chunks(text, max_chars) ==
    IF text = <<>> THEN <<>>
    ELSE <<SubSeq(text, 1, Min(max_chars, Len(text)))>>
             \o split_text_into_chunks(SubSeq(text, max_chars + 1, Len(text)), max_chars)

\* the child files of a split written one after the other, from child i on
RECURSIVE WriteChildren(_, _, _, _, _)
WriteChildren(s, chunks, i, output_dir, stem) ==
    LET child_path == Child(output_dir, stem \o <<"_", "p", "a", "r", "t">>
                                            \o ZeroPad(DecDigits(i), 4) \o <<".", "t", "x", "t">>)
    IN  IF i > Len(chunks) THEN s
        ELSE IF IsDir(s.fs, child_path) THEN [s EXCEPT !.status = "IOError"]
        ELSE WriteChildren([status |-> s.status, split |-> TRUE,
                            children |-> Append(s.children, child_path),
                            fs |-> Put(s.fs, child_path, FileEntry(Encode(chunks[i])))],
                           chunks, i + 1, output_dir, stem)

\* a copy that creates the destination and leaves it empty
CopyUnchangedEmpty(fsys, source, dest) ==
    IF dest = source \/ IsDir(fsys, dest)
    THEN [status |-> "IOError", split |-> FALSE, children |-> <<>>, fs |-> fsys]
    ELSE [status |-> "ok", split |-> FALSE, children |-> <<dest>>,
          fs |-> Put(fsys, dest, FileEntry(<<>>))]

\* shutil.copy2(source, dest) and the result for a document copied unchanged;
\* copying a file onto itself raises SameFileError
CopyUnchanged(fsys, source, dest) ==
    IF dest = source \/ IsDir(fsys, dest)
    THEN [status |-> "IOError", split |-> FALSE, children |-> <<>>, fs |-> fsys]
    ELSE [status |-> "ok", split |-> FALSE, children |-> <<dest>>,
          fs |-> Put(fsys, dest, FileEntry(fsys[source].data))]

\* the supported-format branch of segment_document for the plain-text and
\* HTML formats, from the extracted text on
SegmentText(fsys, source, output_dir, text, max_child_bytes, max_child_text_chars) ==
    IF Len(fsys[source].data) > max_child_bytes \/ Len(text) > max_child_text_chars
    THEN WriteChildren([status |-> "ok", split |-> TRUE, children |-> <<>>, fs |-> fsys],
                       split_text_into_chunks(text, max_child_text_chars), 1, output_dir,
                       Stem(Name(source)))
    ELSE CopyUnchanged(fsys, source, Child(output_dir, Name(source)))

\* segment_document from the created output directory on
SegmentMade(made, source, output_dir, max_child_bytes, max_child_text_chars) ==
    LET suffix == Lower(Suffix(Name(source)))
    IN  IF ~made.ok
        THEN [status |-> "IOError", split |-> FALSE, children |-> <<>>, fs |-> made.fs]
        ELSE IF suffix \in OUT_OF_SCOPE_FORMATS
        THEN IF Len(made.fs[source].data) > max_child_bytes
             THEN [status |-> "error", split |-> FALSE, children |-> <<>>, fs |-> made.fs]
             ELSE CopyUnchanged(made.fs, source, Child(output_dir, Name(source)))
        ELSE IF suffix \notin SUPPORTED_PLAIN \cup SUPPORTED_HTML
        THEN CopyUnchanged(made.fs, source, Child(output_dir, Name(source)))
        ELSE SegmentText(made.fs, source, output_dir, extract_text(made.fs, source),
                         max_child_bytes, max_child_text_chars)

\* segment_document(source, output_dir, max_child_bytes, max_child_text_chars)
\* for a regular file that is plain text, HTML, out of scope, or of no known
\* format
segment_document(fsys, source, output_dir, max_child_bytes, max_child_text_chars) ==
    SegmentMade(Mkdirs(fsys, output_dir), source, output_dir, max_child_bytes,
                max_child_text_chars)

\* ------------------------------------------- specification: the segmenter
\* bytes of the longest document, and the largest limits handed in (both
\* limits are positive)
MaxDoc == 3
MaxChildBytes == 2
MaxChildChars == 2

\* the bytes of documents: an ASCII letter and the two bytes of U+00E9
DocBytes == {"a", "0xC3", "0xA9"}

\* the bytes of HTML documents
HtmlBytes == {"a", "<", ">"}

\* the names of documents: plain text in both cases of the suffix, HTML, an
\* out-of-scope format and an unknown one
DocNames ==
    {<<"f", ".", "t", "x", "t">>, <<"f", ".", "T", "X", "T">>, <<"f", ".", "h", "t", "m", "l">>,
     <<"f", ".", "d", "o", "c">>, <<"f", ".", "d", "a", "t">>}

NoSegment ==
    [op |-> "none", source |-> NoPath, output_dir |-> NoPath, max_child_bytes |-> 0,
     max_child_text_chars |-> 0, status |-> "none", split |-> FALSE, children |-> <<>>,
     pre |-> <<>>]

\* one document of 0..MaxDoc bytes in the directory d
InitSegment ==
    /\ \E name \in DocNames : \E n \in 0..MaxDoc :
       \E data \in [1..n -> IF Lower(Suffix(name)) \in SUPPORTED_HTML THEN HtmlBytes
                             ELSE DocBytes] :
           fs = Put((Root :> DirEntry) @@ (SrcDir :> DirEntry), Child(SrcDir, name),
                    FileEntry(data))
    /\ last = NoSegment
    /\ chopped = NoChop
    /\ chops = 0
    /\ tampers = 0

\* a call of segment_document
SegmentDocument(source, output_dir, max_child_bytes, max_child_text_chars) ==
    LET r == segment_document(fs, source, output_dir, max_child_bytes, max_child_text_chars)
    IN  /\ last.op = "none"
        /\ IsFile(fs, source)
        /\ fs' = r.fs
        /\ last' = [op |-> "segment_document", source |-> source, output_dir |-> output_dir,
                    max_child_bytes |-> max_child_bytes,
                    max_child_text_chars |-> max_child_text_chars, status |-> r.status,
                    split |-> r.split, children |-> r.children, pre |-> fs]
        /\ UNCHANGED <<chopped, chops, tampers>>

\* the document is segmented into another directory or into its own
NextSegment ==
    \E name \in DocNames, o \in {OutDir, SrcDir}, b \in 1..MaxChildBytes,
       c \in 1..MaxChildChars :
        SegmentDocument(Child(SrcDir, name), o, b, c)

SpecSegment == InitSegment /\ [][NextSegment]_vars

\* C20: every child file that segment_document writes when it splits a
\* document holds at most max_child_text_chars characters and is at most
\* max_child_bytes bytes long
C20_ChildLimits ==
    (last.op = "segment_document" /\ last.split) =>
        \A k \in 1..Len(last.children) :
            /\ IsFile(fs, last.children[k])
            /\ Len(Decode(fs[last.children[k]].data)) <= last.max_child_text_chars
            /\ Len(fs[last.children[k]].data) <= last.max_child_bytes

\* the regular files of a file system with their content
Files(fsys) == {<<p, fsys[p].data>> : p \in {q \in DOMAIN fsys : IsFile(fsys, q)}}

C29_OkHasChildren ==
    (last.op = "segment_document" /\ last.status = "ok")
    =>  /\ Len(last.children) >= 1
        /\ \A k \in 1..Len(last.children) :
              /\ IsFile(fs, last.children[k])
              /\ Parent(last.children[k]) = last.output_dir

\* C22: join validates before it writes.  When the list is empty it fails
\* with InvalidArgument, when a listed part does not exist with NotFound, and
\* in both cases the file system is as before: no output file, no parent
\* directory, and a file at the output path keeps its content
C22_ValidationFirst ==
    (last.op = "join"
        /\ (last.parts = <<>> \/ \E k \in 1..Len(last.parts) : ~Exists(last.pre, last.parts[k])))
    =>  /\ last.status = (IF last.parts = <<>> THEN "InvalidArgument" ELSE "NotFound")
        /\ last.result = NoPath
        /\ fs = last.pre

C22_Witness ==
    /\ last.op = "join"
    /\ Len(last.parts) >= 2
    /\ Exists(last.pre, last.parts[1])
    /\ \E k \in 2..Len(last.parts) : ~Exists(last.pre, last.parts[k])
    /\ last.output = Child(OutDir, <<"r">>)
    /\ ~Exists(last.pre, OutDir)
    /\ last.status = "NotFound"
    /\ ~Exists(fs, OutDir)

\* ------------------------------------------------------ join, list order
\* every ordering of a list of distinct paths
Orderings(parts) ==
    {[k \in 1..Len(parts) |-> parts[f[k]]] :
        f \in {g \in [1..Len(parts) -> 1..Len(parts)] :
                  \A i, j \in 1..Len(parts) : i # j => g[i] # g[j]}}

\* the parts of an earlier successful chop are joined in any order, into the
\* inferred output or into a new file of another directory
NextJoinOrder ==
    \E ps \in Orderings(chopped.parts) :
        \E o \in {NoPath, Child(OutDir, <<"r">>)}, v \in BOOLEAN : Join(ps, o, v)

SpecJoinOrder == InitJoinCmd /\ [][NextJoinOrder]_vars

\* C23: join writes the parts in the order of the list it is given and never
\* re-sorts them: with verification off, a join of any ordering of the chopped
\* parts succeeds and its output holds the parts' bytes in list order
C23_ListOrder ==
    (last.op = "join" /\ ~last.verify)
    =>  /\ last.status = "ok"
        /\ IsFile(fs, last.result)
        /\ fs[last.result].data = Concat(last.pre, last.parts)

\* three parts joined last part first, to bytes that differ from the source's
C23_Witness ==
    /\ last.op = "join" /\ ~last.verify
    /\ Len(last.parts) = 3
    /\ last.parts = <<chopped.parts[3], chopped.parts[1], chopped.parts[2]>>
    /\ last.status = "ok"
    /\ fs[last.result].data # chopped.data
    /\ fs[last.result].data = <<chopped.data[3], chopped.data[1], chopped.data[2]>>

\* C24: chop calls the progress callback once per part, after the part's file
\* has been written, with (cumulative bytes written, total bytes): the k-th
\* call finds the k-th part on disk with its final content and reports the
\* size of the first k parts and the source's size; the first component grows
\* strictly from call to call, never exceeds the total, and the last call of a
\* successful chop is (total, total)
C24_Progress ==
    last.op = "chop"
    =>  LET total == IF IsFile(last.pre, last.source)
                     THEN Len(last.pre[last.source].data) ELSE 0
            n == Len(last.cbs)
        IN  /\ n = Len(last.parts)
            /\ \A k \in 1..n :
                  /\ last.cbs[k].on_disk = <<fs[last.parts[k]].data>>
                  /\ last.cbs[k].bytes_done = SumLen(fs, SubSeq(last.parts, 1, k))
                  /\ last.cbs[k].total_bytes = total
                  /\ last.cbs[k].bytes_done <= total
                  /\ k > 1 => last.cbs[k].bytes_done > last.cbs[k - 1].bytes_done
            /\ last.status = "ok" =>
                  /\ n >= 1
                  /\ last.cbs[n].bytes_done = total

\* three bytes chopped in blocks of two: the calls are (2, 3) and (3, 3)
C24_Witness ==
    /\ last.op = "chop"
    /\ last.status = "ok"
    /\ Len(last.cbs) = 2
    /\ last.cbs[1].bytes_done = 2 /\ last.cbs[1].total_bytes = 3
    /\ last.cbs[2].bytes_done = 3 /\ last.cbs[2].total_bytes = 3
    /\ last.cbs[2].on_disk = <<fs[last.parts[2]].data>>

\* ------------------------------------------- chop, a part cannot be written
\* the paths chop writes for the source in directory dir: the first
\* MaxLen parts and the sidecar
WrittenPaths(dir) ==
    {Child(dir, SourceName \o PART_SUFFIX_TEMPLATE(k)) : k \in 1..MaxLen}
        \cup {Child(dir, SourceName \o SHA256_SUFFIX)}

\* a non-empty source, and a directory in the way at one of the paths chop
\* writes, beside the source or in the output directory; the sidecar of an
\* earlier run may be there
InitChopFail ==
    /\ \E f \in {g \in InitialFileSystems : IsFile(g, Source) /\ Len(g[Source].data) > 0},
          d \in {SrcDir, OutDir}, stale \in BOOLEAN :
          \E blocked \in WrittenPaths(d) :
              LET sidecar == Child(d, SourceName \o SHA256_SUFFIX)
                  inTheWay == Put(Mkdirs(f, d).fs, blocked, DirEntry)
              IN  fs = IF stale /\ blocked # sidecar
                       THEN Put(inTheWay, sidecar,
                                FileEntry(SidecarText(Sha256Hex(<<>>), SourceName)))
                       ELSE inTheWay
    /\ last = NoCall
    /\ chopped = NoChop
    /\ chops = 0
    /\ tampers = 0

NextChopFail ==
    \E c \in 1..MaxChunk, d \in OutputDirs, v \in BOOLEAN : Chop(Source, c, d, v)

SpecChopFail == InitChopFail /\ [][NextChopFail]_vars

\* the number of the first part, of those a chop of the last call's source
\* needs, whose path was a directory before the call; 0 when there is none
FirstBlocked ==
    LET size == Len(last.pre[last.source].data)
        needed == (size + last.chunk - 1) \div last.chunk
        path(k) == Child(last.dir, Name(last.source) \o PART_SUFFIX_TEMPLATE(k))
        blocked == {k \in 1..needed : IsDir(last.pre, path(k))}
    IN  IF blocked = {} THEN 0 ELSE CHOOSE k \in blocked : \A j \in blocked : k <= j

\* C25: the sidecar is written only after every part.  When chop cannot open
\* the file of part k, the error propagates, parts 1..k-1 are on disk with
\* their full blocks of the source, and the sidecar's path is as it was before
\* the call, whatever verify says
C25_FailedPart ==
    (last.op = "chop" /\ FirstBlocked > 0)
    =>  LET sidecar == Child(last.dir, Name(last.source) \o SHA256_SUFFIX)
            data == last.pre[last.source].data
        IN  /\ last.status = "IOError"
            /\ Len(last.parts) = FirstBlocked - 1
            /\ \A i \in 1..(FirstBlocked - 1) :
                  /\ last.parts[i] =
                        Child(last.dir, Name(last.source) \o PART_SUFFIX_TEMPLATE(i))
                  /\ IsFile(fs, last.parts[i])
                  /\ fs[last.parts[i]].data =
                        SubSeq(data, (i - 1) * last.chunk + 1, i * last.chunk)
            /\ Exists(fs, sidecar) = Exists(last.pre, sidecar)
            /\ Exists(fs, sidecar) => fs[sidecar] = last.pre[sidecar]

\* the third part cannot be written: two parts stay, no sidecar though verify
\* is on
C25_Witness ==
    /\ last.op = "chop" /\ last.verify
    /\ FirstBlocked = 3
    /\ last.status = "IOError"
    /\ Len(last.parts) = 2
    /\ IsFile(fs, last.parts[2])
    /\ ~Exists(fs, Child(last.dir, Name(last.source) \o SHA256_SUFFIX))

\* ------------------------------------------------------- segment_folder
\* input_dir.rglob("*"): everything below the directory, in no particular
\* order
Rglob(fsys, input_dir) ==
    Enumerated({p \in DOMAIN fsys :
                   Len(p) > Len(input_dir) /\ SubSeq(p, 1, Len(input_dir)) = input_dir})

\* a loop of segment_folder that goes on after a result that is not OK
RECURSIVE FolderLoopNoStop(_, _, _, _, _, _, _, _, _)
FolderLoopNoStop(fsys, sources, i, input_dir, output_dir, max_child_bytes, max_child_text_chars, fail_fast, results) ==
    IF i > Len(sources) THEN [raised |-> FALSE, results |-> results, fs |-> fsys]
    ELSE IF ~IsFile(fsys, sources[i])
    THEN FolderLoopNoStop(fsys, sources, i + 1, input_dir, output_dir, max_child_bytes,
                          max_child_text_chars, fail_fast, results)
    ELSE LET relative == SubSeq(sources[i], Len(input_dir) + 1, Len(sources[i]))
             r == segment_document(fsys, sources[i], output_dir \o Parent(relative),
                                   max_child_bytes, max_child_text_chars)
         IN  IF r.status = "IOError"
             THEN [raised |-> TRUE, results |-> results, fs |-> r.fs]
             ELSE FolderLoopNoStop(r.fs, sources, i + 1, input_dir, output_dir,
                      max_child_bytes, max_child_text_chars, fail_fast,
                      Append(results, [source |-> sources[i], status |-> r.status,
                                       children |-> r.children]))

\* one document's result appended to the list, and the loop from the next
\* path on unless fail_fast stops it
RECURSIVE FolderLoop(_, _, _, _, _, _, _, _, _)
FolderStep(r, sources, i, input_dir, output_dir, max_child_bytes, max_child_text_chars, fail_fast, results) ==
    IF r.status = "IOError" THEN [raised |-> TRUE, results |-> results, fs |-> r.fs]
    ELSE IF fail_fast /\ r.status # "ok"
    THEN [raised |-> FALSE, fs |-> r.fs,
          results |-> Append(results, [source |-> sources[i], status |-> r.status,
                                       children |-> r.children])]
    ELSE FolderLoop(r.fs, sources, i + 1, input_dir, output_dir, max_child_bytes,
                    max_child_text_chars, fail_fast,
                    Append(results, [source |-> sources[i], status |-> r.status,
                                     children |-> r.children]))

\* the loop of segment_folder over the sorted paths, from the i-th on: what is
\* no regular file is skipped, a document goes into the directory that mirrors
\* its own, and an exception of segment_document ends the call
FolderLoop(fsys, sources, i, input_dir, output_dir, max_child_bytes, max_child_text_chars, fail_fast, results) ==
    IF i > Len(sources) THEN [raised |-> FALSE, results |-> results, fs |-> fsys]
    ELSE IF ~IsFile(fsys, sources[i])
    THEN FolderLoop(fsys, sources, i + 1, input_dir, output_dir, max_child_bytes,
                    max_child_text_chars, fail_fast, results)
    ELSE FolderStep(segment_document(fsys, sources[i],
                        output_dir \o Parent(SubSeq(sources[i], Len(input_dir) + 1,
                                                    Len(sources[i]))),
                        max_child_bytes, max_child_text_chars),
                    sources, i, input_dir, output_dir, max_child_bytes,
                    max_child_text_chars, fail_fast, results)

\* segment_folder(input_dir, output_dir, max_child_bytes, max_child_text_chars,
\* fail_fast)
segment_folder(fsys, input_dir, output_dir, max_child_bytes, max_child_text_chars, fail_fast) ==
    FolderLoop(fsys, Sorted(Rglob(fsys, input_dir)), 1, input_dir, output_dir,
               max_child_bytes, max_child_text_chars, fail_fast, <<>>)

\* --------------------------------------- specification: segment_folder
\* the documents of the input directory: a text file, an out-of-scope file in
\* a subdirectory b and an out-of-scope file b.doc beside that directory
FolderDocs ==
    {Child(SrcDir, <<"a", ".", "t", "x", "t">>),
     Child(Child(SrcDir, <<"b">>), <<"a", ".", "d", "o", "c">>),
     Child(SrcDir, <<"b", ".", "d", "o", "c">>)}

\* the file system with the documents of contents[p], a document of -1 bytes
\* being none
RECURSIVE Planted(_, _, _)
Planted(fsys, docs, contents) ==
    IF docs = {} THEN fsys
    ELSE LET p == CHOOSE q \in docs : TRUE
         IN  Planted(IF contents[p] < 0 THEN fsys
                     ELSE Put(fsys, p, FileEntry([k \in 1..contents[p] |-> "a"])),
                     docs \ {p}, contents)

\* the input directory d with its subdirectory b, each document absent or of
\* 0..MaxDoc bytes; the output directory does not exist yet
InitFolder ==
    /\ \E contents \in [FolderDocs -> (-1)..MaxDoc] :
           fs = Planted((Root :> DirEntry) @@ (SrcDir :> DirEntry)
                            @@ (Child(SrcDir, <<"b">>) :> DirEntry),
                        FolderDocs, contents)
    /\ last = NoSegment
    /\ chopped = NoChop
    /\ chops = 0
    /\ tampers = 0

\* a call of segment_folder
SegmentFolder(input_dir, output_dir, max_child_bytes, max_child_text_chars, fail_fast) ==
    LET r == segment_folder(fs, input_dir, output_dir, max_child_bytes,
                            max_child_text_chars, fail_fast)
    IN  /\ last.op = "none"
        /\ fs' = r.fs
        /\ last' = [op |-> "segment_folder", input_dir |-> input_dir,
                    output_dir |-> output_dir, max_child_bytes |-> max_child_bytes,
                    max_child_text_chars |-> max_child_text_chars,
                    fail_fast |-> fail_fast, raised |-> r.raised, results |-> r.results,
                    pre |-> fs]
        /\ UNCHANGED <<chopped, chops, tampers>>

NextFolder ==
    \E b \in 1..MaxChildBytes, c \in 1..MaxChildChars, fail_fast \in BOOLEAN :
        SegmentFolder(SrcDir, OutDir, b, c, fail_fast)

SpecFolder == InitFolder /\ [][NextFolder]_vars

\* the regular files below the input directory before the last call
FolderFiles ==
    {p \in DOMAIN last.pre :
        /\ IsFile(last.pre, p)
        /\ Len(p) > Len(last.input_dir)
        /\ SubSeq(p, 1, Len(last.input_dir)) = last.input_dir}

\* C26: segment_folder visits the regular files below the input directory in
\* sorted path order and returns one result per processed file: the results'
\* sources ascend and are exactly the files up to the last one processed.
\* With fail_fast every result but the last is OK and the call stops only
\* after a result that is not OK or after the last file; without fail_fast
\* there is a result for every file
C26_FolderOrder ==
    last.op = "segment_folder"
    =>  LET res == last.results
            n == Len(res)
        IN  /\ ~last.raised
            /\ \A k \in 1..n : res[k].source \in FolderFiles
            /\ \A k \in 1..(n - 1) : PathLess(res[k].source, res[k + 1].source)
            /\ \A f \in FolderFiles :
                  (\E k \in 1..n : res[k].source = f)
                      \/ (n > 0 /\ PathLess(res[n].source, f))
            /\ \A k \in 1..n :
                  res[k].status # "ok" <=>
                      /\ Lower(Suffix(Name(res[k].source))) \in OUT_OF_SCOPE_FORMATS
                      /\ Len(last.pre[res[k].source].data) > last.max_child_bytes
            /\ IF last.fail_fast
               THEN /\ \A k \in 1..(n - 1) : res[k].status = "ok"
                    /\ n < Cardinality(FolderFiles) => res[n].status # "ok"
                    /\ (n = 0) = (FolderFiles = {})
               ELSE n = Cardinality(FolderFiles)

\* three documents, the second too large for its format: fail_fast stops
\* after it, in the subdirectory, before b.doc
C26_Witness ==
    /\ last.op = "segment_folder" /\ last.fail_fast
    /\ Cardinality(FolderFiles) = 3
    /\ Len(last.results) = 2
    /\ last.results[1].status = "ok"
    /\ last.results[2].status = "error"
    /\ last.results[2].source = Child(Child(SrcDir, <<"b">>), <<"a", ".", "d", "o", "c">>)

\* ------------------------------------ specification: splitting a text
\* characters of the longest text
MaxText == 5

\* the characters of texts: an ASCII letter and U+00E9
TextChars == {"a", "U+00E9"}

\* a text of 0..MaxText characters, not split yet
InitChunks ==
    /\ \E n \in 0..MaxText : \E text \in [1..n -> TextChars] :
           last = [op |-> "none", text |-> text, max_chars |-> 0, chunks |-> <<>>]
    /\ fs = (Root :> DirEntry)
    /\ chopped = NoChop
    /\ chops = 0
    /\ tampers = 0

\* a call of _split_text_into_chunks(text, max_chars)
SplitText(max_chars) ==
    /\ last.op = "none"
    /\ last' = [last EXCEPT !.op = "split", !.max_chars = max_chars,
                            !.chunks = split_text_into_chunks(last.text, max_chars)]
    /\ UNCHANGED <<fs, chopped, chops, tampers>>

NextChunks == \E max_chars \in 1..MaxChildChars : SplitText(max_chars)

SpecChunks == InitChunks /\ [][NextChunks]_vars

\* C27: for every text and every max_chars > 0, _split_text_into_chunks
\* returns ceil(len(text) / max_chars) chunks (none for the empty text), each
\* non-empty and at most max_chars long, every chunk but the last exactly
\* max_chars long, and the chunks concatenated in order are the text
C27_Chunks ==
    last.op = "split"
    =>  LET n == Len(last.chunks)
        IN  /\ n = (Len(last.text) + last.max_chars - 1) \div last.max_chars
            /\ last.text = <<>> => last.chunks = <<>>
            /\ \A k \in 1..n :
                  /\ Len(last.chunks[k]) >= 1
                  /\ Len(last.chunks[k]) <= last.max_chars
                  /\ k < n => Len(last.chunks[k]) = last.max_chars
            /\ Flatten(last.chunks) = last.text

\* five characters in chunks of two: three chunks, the last of one character
C27_Witness ==
    /\ last.op = "split"
    /\ Len(last.text) = 5 /\ last.max_chars = 2
    /\ Len(last.chunks) = 3
    /\ Len(last.chunks[3]) = 1
    /\ last.chunks[3] = <<last.text[5]>>

\* the outcome of the chop command of the last step had it run without
\* --dry-run
RealChop == cmd_chop(last.pre, last.file, last.size, last.output_dir, last.no_verify, FALSE)

\* the output directory of the last command is there or can be created
OutputDirUsable ==
    Mkdirs(last.pre, IF last.output_dir = NoPath THEN Parent(last.file)
                     ELSE last.output_dir).ok

\* C30: the dry-run preview agrees with the real operation.  For every
\* non-empty source and every positive chunk size, with an output directory
\* that is there or can be created, the same command without --dry-run
\* succeeds and the part names and sizes that chop --dry-run lists are exactly
\* the names and sizes of the part files it creates
C30_DryRunAgrees ==
    (/\ last.op = "cmd_chop" /\ last.dry_run
     /\ NonEmptySource /\ PositiveSize(last.size) /\ OutputDirUsable)
    =>  LET n == Len(last.listing)
            sidecar == Child(Parent(last.listing[1].path), Name(last.file) \o SHA256_SUFFIX)
            created == {p \in DOMAIN RealChop.fs :
                           /\ IsFile(RealChop.fs, p)
                           /\ ~Exists(last.pre, p) \/ last.pre[p] # RealChop.fs[p]}
        IN  /\ n >= 1
            /\ RealChop.exit = 0
            /\ Len(RealChop.parts) = n
            /\ \A k \in 1..n :
                  /\ last.listing[k].path = RealChop.parts[k]
                  /\ IsFile(RealChop.fs, last.listing[k].path)
                  /\ last.listing[k].size = Len(RealChop.fs[last.listing[k].path].data)
            /\ created \ {sidecar} = {last.listing[k].path : k \in 1..n}

\* three bytes previewed in chunks of two: a part of two bytes and one of one
C30_Witness ==
    /\ last.op = "cmd_chop" /\ last.dry_run
    /\ NonEmptySource /\ PositiveSize(last.size) /\ OutputDirUsable
    /\ Len(last.pre[last.file].data) = 3
    /\ Len(last.listing) = 2
    /\ last.listing[1].size = 2
    /\ last.listing[2].size = 1
    /\ last.listing[2].path = RealChop.parts[2]
    /\ fs = last.pre
====
